---- MODULE Spec2Model ----
(***************************************************************************)
(* Model of parts of the node-replicated kernel:                           *)
(*   - the aarch64 boot loader's VSpace builder (map_generic/resolve_addr) *)
(*   - the rackscale controller's request_core handler                     *)
(*   - the RPC client (connect / call)                                     *)
(*   - the x86_64 generic exception dispatcher                             *)
(*   - the x86_64 remote debugger target (gdb)                             *)
(*   - the aarch64 core control block (KCB install)                        *)
(*   - the kernel command-line parser                                      *)
(*   - the boot loader's handoff to the kernel (uefi_start)                *)
(* Addresses are kept in units of 4 KiB base pages (page-frame numbers);   *)
(* the byte offset inside a base page is carried separately where the      *)
(* code uses it.                                                           *)
(***************************************************************************)
EXTENDS Integers, Sequences, FiniteSets, TLC

VARIABLES
    mem,        \* physical memory holding descriptors: <<page, index>> -> descriptor
    nextTable,  \* number of page-table pages handed out by memory::allocate_one_page
    vsStatus,   \* "ok" while the boot loader runs, "panic" once map_generic aborted
    vsCalls,    \* history of map_generic calls: argument and outcome records
    fwMap,      \* the firmware's memory map read by map_physical_memory, if any
    hwThreads,  \* controller state: machine id -> sequence of [id, node_id, in_use]
    ctlStatus,  \* "running", or "panic" once a handler aborted the controller
    rcLast,     \* the last handle_request_core invocation: inputs, outcome, state before
    rcReturned, \* gtid -> number of times a reply carried Ok((gtid, 0))
    runPc,      \* controller loop: 0 before the poll, k before try_handle of server k
    runPending, \* per client: the requests received and not yet handled, in order
    runSent,    \* number of requests the clients have sent so far
    client,     \* the RPC client: [transport, client_id, req_id, hdr], or "none"
    clStatus,   \* "none" (not constructed), "new", "connected", "panic"
    clLog,      \* per Client::call invocation: the header sent and the result
    clLast,     \* details of the last connect()/call(): inputs, response, state before
    csa,        \* CURRENT_SAVE_AREA
    proc,       \* the core's current process and its vcpu control block
    irqStatus,  \* "boot", "running", or "panic" once the dispatcher aborted
    irqLast,    \* the last event on the core: the exception taken and its resume handle
    irqHandlers,\* IRQ_HANDLERS: the vectors whose entry register_handler replaced
    irqLock,    \* the mutex of IRQ_HANDLERS: free, or held for the vector being stored
    smpPc,      \* per core: "user", or "trap" inside handle_generic_exception
    smpArgs,    \* per core: the ExceptionArguments of the exception being handled
    smpProc,    \* per core: the current process and its vcpu control block
    smpLast,    \* the last resume on any core: the core, its exception, its handle
    kdebug,     \* KernelDebugger: [hw_break_points, signal, resume_with]
    gdbSave,    \* kcb.arch.save_area as the debugger uses it: [rflags, enabled_bps]
    dr6,        \* debug status register: the set of Dr6 flags that are set
    gdbStub,    \* GDB_STUB: the parked state machine, or "None" while taken
    gdbLoop,    \* event_loop's locals: [pc, stm, stop_reason]
    gdbPt,      \* current page table as resolve sees it: page -> rights or unmapped
    gdbLast,    \* the last debugger operation: arguments, result, state before
    tpidr,      \* TPIDR_EL1 of each core: 0 (null) or the address of the core's KCB
    kcbs,       \* the AArch64Kcb of each core
    kcbPc,      \* position of each core in AArch64Kcb::install
    kcbLast,    \* the last KCB operation on any core
    cmdArgs,    \* the command line the boot loader handed over, as segments
    cmdLast,    \* the last BootloaderArguments::from_str call: input and result
    bootPc,     \* position of the boot loader in uefi_start, "panic" once it aborted
    bootMm,     \* what uefi_start computed: the memory-map buffer, the capacity of
                \* kernel_args.mm_iter, the firmware's map, kernel_args.frame_buffer
    bootTrace,  \* what uefi_start has done so far, in order
    benchCfg,   \* the unmap benchmark's build: the features smoke and latency
    barrier,    \* POOR_MANS_BARRIER
    bChan,      \* thread ids whose entry of TX_CHANNELS holds a sender
    bQueue,     \* per thread: the commands pushed to its queue and not yet popped
    bPc,        \* per thread: its position in unmap_bencher
    bIter,      \* per thread: its local iteration
    bCount,     \* the master's local count of outstanding Accessed messages
    bRounds,    \* rounds the master has completed in the current second
    bLatency,   \* latency.len() of the master
    bMapped,    \* the frame is mapped at base
    bAcc,       \* the workers that read the page since the master last mapped it
    bFault,     \* a thread read the page while it was not mapped
    bJoined     \* the number of thread handles bench() has joined

vsVars == <<mem, nextTable, vsStatus, vsCalls, fwMap>>
runVars == <<runPc, runPending, runSent>>
ctlVars == <<hwThreads, ctlStatus, rcLast, rcReturned, runVars>>
clVars == <<client, clStatus, clLog, clLast>>
smpVars == <<smpPc, smpArgs, smpProc, smpLast>>
irqVars == <<csa, proc, irqStatus, irqLast, irqHandlers, irqLock, smpVars>>

gdbVars == <<kdebug, gdbSave, dr6, gdbStub, gdbLoop, gdbPt, gdbLast>>

kcbVars == <<tpidr, kcbs, kcbPc, kcbLast>>

cmdVars == <<cmdArgs, cmdLast>>

bootVars == <<bootPc, bootMm, bootTrace>>

benchVars ==
    <<benchCfg, barrier, bChan, bQueue, bPc, bIter, bCount, bRounds, bLatency, bMapped,
      bAcc, bFault, bJoined>>

vars == <<vsVars, ctlVars, clVars, irqVars, gdbVars, kcbVars, cmdVars, bootVars, benchVars>>

\* What an action of one component leaves alone: the other components.
VsOthers == <<ctlVars, clVars, irqVars, gdbVars, kcbVars, cmdVars, bootVars, benchVars>>
CtlOthers == <<vsVars, clVars, irqVars, gdbVars, kcbVars, cmdVars, bootVars, benchVars>>
ClOthers == <<vsVars, ctlVars, irqVars, gdbVars, kcbVars, cmdVars, bootVars, benchVars>>
IrqOthers == <<vsVars, ctlVars, clVars, gdbVars, kcbVars, cmdVars, bootVars, benchVars>>
GdbOthers == <<vsVars, ctlVars, clVars, irqVars, kcbVars, cmdVars, bootVars, benchVars>>
KcbOthers == <<vsVars, ctlVars, clVars, irqVars, gdbVars, cmdVars, bootVars, benchVars>>
CmdOthers == <<vsVars, ctlVars, clVars, irqVars, gdbVars, kcbVars, bootVars, benchVars>>
BootOthers == <<vsVars, ctlVars, clVars, irqVars, gdbVars, kcbVars, cmdVars, benchVars>>
BenchOthers == <<vsVars, ctlVars, clVars, irqVars, gdbVars, kcbVars, cmdVars, bootVars>>

-----------------------------------------------------------------------------
(* Bounds *)

MaxCalls == 2
ThreadsPerMachine == 2
MaxClientCalls == 3
NumCores == 2
MaxSegments == 2
MaxRequests == 4
BenchCores == 2
\* Rounds of the unmap benchmark's master that fit into one second.
MaxRounds == 2
\* LATENCY_MEASUREMENTS of unmap_bencher, scaled down from 100_000.
LATENCY_MEASUREMENTS == 3

-----------------------------------------------------------------------------
(* VSpace builder, src/bootloader/src/arch/aarch64/vspace.rs *)

\* Page sizes in units of base pages.
BASE_PAGE_SIZE == 1
LARGE_PAGE_SIZE == 512
HUGE_PAGE_SIZE == 262144
PAGE_BYTES == 4096
TABLE_ENTRIES == 512

\* Page number of the L0 table; the allocator hands out PT_BASE, PT_BASE+1, ...
PT_BASE == 1048576

MapActions ==
    {"None", "ReadUser", "ReadKernel", "ReadWriteUser", "ReadWriteKernel",
     "ReadExecuteKernel", "ReadExecuteUser", "ReadWriteExecuteUser",
     "ReadWriteExecuteKernel", "DeviceMemoryKernel"}

Min(S) == CHOOSE x \in S : \A y \in S : x <= y

L0Index(va) == (va \div (TABLE_ENTRIES * HUGE_PAGE_SIZE)) % TABLE_ENTRIES
L1Index(va) == (va \div HUGE_PAGE_SIZE) % TABLE_ENTRIES
L2Index(va) == (va \div LARGE_PAGE_SIZE) % TABLE_ENTRIES
L3Index(va) == (va \div BASE_PAGE_SIZE) % TABLE_ENTRIES

\* Variant of is_aligned that takes every address as aligned.
is_aligned_any(a, sz) == TRUE

is_aligned(a, sz) == a % sz = 0

InvalidDesc ==
    [kind |-> "invalid", addr |-> 0, ap |-> "RO", uxn |-> FALSE, pxn |-> FALSE,
     attr |-> "NormalMemory"]

is_valid(d) == d.kind # "invalid"

\* Variant of is_block that never sees a block descriptor.
is_block_never(d) == FALSE

is_block(d) == d.kind = "block"
is_table(d) == d.kind = "table"
get_paddr(d) == d.addr
get_frame(d) == IF is_valid(d) THEN <<"Some", d.addr>> ELSE <<"None">>

\* Pages handed out by the allocator are page-table pages and start zeroed.
IsTablePage(m, p) == p >= PT_BASE /\ p < PT_BASE + m.next

\* What a descriptor-sized read of a page that is not a page table yields:
\* the page holds data of the mapped frame, so any bit pattern is possible.
JunkKinds == {"invalid", "block", "table"}
JunkDesc(junk) == [InvalidDesc EXCEPT !.kind = junk, !.addr = 0]

entry_at(m, junk, tbl, idx) ==
    IF <<tbl, idx>> \in DOMAIN m.mem THEN m.mem[<<tbl, idx>>]
    ELSE IF IsTablePage(m, tbl) THEN InvalidDesc
    ELSE JunkDesc(junk)

set_entry_at(m, tbl, idx, d) ==
    [m EXCEPT !.mem = (<<tbl, idx>> :> d) @@ m.mem]

set_l3_entry_rights(rights, entry) ==
    LET base == [entry EXCEPT !.ap = "RO", !.uxn = TRUE, !.pxn = TRUE,
                              !.attr = "NormalMemory"]
    IN CASE rights = "None" -> [base EXCEPT !.ap = "NoAccess"]
         [] rights \in {"ReadUser", "ReadKernel"} -> base
         [] rights \in {"ReadWriteUser", "ReadWriteKernel"} -> [base EXCEPT !.ap = "RW"]
         [] rights = "ReadExecuteKernel" -> [base EXCEPT !.pxn = FALSE]
         [] rights = "ReadExecuteUser" -> [base EXCEPT !.uxn = FALSE]
         [] rights = "ReadWriteExecuteUser" -> [base EXCEPT !.uxn = FALSE]
         [] rights = "ReadWriteExecuteKernel" -> [base EXCEPT !.pxn = FALSE]
         [] rights = "DeviceMemoryKernel" ->
                [base EXCEPT !.ap = "RW", !.attr = "DeviceMemory"]

set_l2_entry_rights(rights, entry) ==
    LET base == [entry EXCEPT !.ap = "RO", !.uxn = TRUE, !.pxn = TRUE,
                              !.attr = "NormalMemory"]
    IN CASE rights = "None" -> [base EXCEPT !.ap = "NoAccess"]
         [] rights \in {"ReadUser", "ReadKernel"} -> base
         [] rights \in {"ReadWriteUser", "ReadWriteKernel"} -> [base EXCEPT !.ap = "RW"]
         [] rights = "ReadExecuteKernel" -> [base EXCEPT !.pxn = FALSE]
         [] rights = "ReadExecuteUser" -> [base EXCEPT !.uxn = FALSE]
         [] rights = "ReadWriteExecuteUser" -> [base EXCEPT !.uxn = FALSE]
         [] rights = "ReadWriteExecuteKernel" -> [base EXCEPT !.pxn = FALSE]
         [] rights = "DeviceMemoryKernel" ->
                [base EXCEPT !.ap = "RW", !.attr = "DeviceMemory"]

set_l1_entry_rights(rights, entry) ==
    LET base == [entry EXCEPT !.ap = "RO", !.uxn = TRUE, !.pxn = TRUE,
                              !.attr = "NormalMemory"]
    IN CASE rights = "None" -> [base EXCEPT !.ap = "NoAccess"]
         [] rights \in {"ReadUser", "ReadKernel"} -> base
         [] rights \in {"ReadWriteUser", "ReadWriteKernel"} -> [base EXCEPT !.ap = "RW"]
         [] rights = "ReadExecuteKernel" -> [base EXCEPT !.pxn = FALSE]
         [] rights = "ReadExecuteUser" -> [base EXCEPT !.uxn = FALSE]
         [] rights = "ReadWriteExecuteUser" -> [base EXCEPT !.uxn = FALSE]
         [] rights = "ReadWriteExecuteKernel" -> [base EXCEPT !.pxn = FALSE]
         [] rights = "DeviceMemoryKernel" ->
                [base EXCEPT !.ap = "RW", !.attr = "DeviceMemory"]

\* Variant of leaf_entry that leaves out the rights and the frame address.
leaf_entry_noframe(level, rights, paddr) ==
    [InvalidDesc EXCEPT !.kind = IF level = 3 THEN "page" ELSE "block"]

\* The leaf descriptor map_generic builds at a level: rights first, then the
\* shareability/accessed/attribute/frame/valid chain.
leaf_entry(level, rights, paddr) ==
    LET fresh == [InvalidDesc EXCEPT !.kind = "invalid"]
        r == CASE level = 1 -> set_l1_entry_rights(rights, fresh)
               [] level = 2 -> set_l2_entry_rights(rights, fresh)
               [] level = 3 -> set_l3_entry_rights(rights, fresh)
    IN [r EXCEPT !.attr = "NormalMemory", !.addr = paddr,
                 !.kind = IF level = 3 THEN "page" ELSE "block"]

\* new_l1_table / new_l2_table / new_l3_table: allocate one page and wrap it
\* in a valid table descriptor.
new_table(m) ==
    [m |-> [m EXCEPT !.next = @ + 1],
     desc |-> [InvalidDesc EXCEPT !.kind = "table", !.addr = PT_BASE + m.next]]

new_l1_table(m) == new_table(m)
new_l2_table(m) == new_table(m)
new_l3_table(m) == new_table(m)

\* get_l1_table / get_l2_table / get_l3_table: Some(page at get_paddr) for
\* every valid entry, whatever its type.
get_l1_table(entry) == IF is_valid(entry) THEN <<"Some", get_paddr(entry)>> ELSE <<"None">>
get_l2_table(entry) == IF is_valid(entry) THEN <<"Some", get_paddr(entry)>> ELSE <<"None">>
get_l3_table(entry) == IF is_valid(entry) THEN <<"Some", get_paddr(entry)>> ELSE <<"None">>


\* Variant of leaf_in_use without the checks: every slot counts as free.
leaf_in_use_unchecked(level, d) == FALSE

\* The checks map_generic makes on a slot before it installs a leaf there:
\* at L1 and L2 a block or a table descriptor panics, at L3 any valid entry.
leaf_in_use(level, d) ==
    IF level = 3 THEN is_valid(d) ELSE is_block(d) \/ is_table(d)

\* One of the three inner loops of map_generic (level 1: 1 GiB blocks in an
\* L1 table, level 2: 2 MiB blocks in an L2 table, level 3: 4 KiB pages in an
\* L3 table).  The loop runs while the index of vaddr in the parent table is
\* the one it started with and a whole page still fits in the remaining size;
\* it panics at the first slot that is already in use.
map_leaves(s, tbl, level, rights, junk) ==
    LET P == CASE level = 1 -> HUGE_PAGE_SIZE
               [] level = 2 -> LARGE_PAGE_SIZE
               [] level = 3 -> BASE_PAGE_SIZE
        ParentIdx(va) == CASE level = 1 -> L0Index(va)
                           [] level = 2 -> L1Index(va)
                           [] level = 3 -> L2Index(va)
        ThisIdx(va) == CASE level = 1 -> L1Index(va)
                         [] level = 2 -> L2Index(va)
                         [] level = 3 -> L3Index(va)
        idx == ParentIdx(s.vaddr)
        i0 == ThisIdx(s.vaddr)
        \* number of passes the loop guard admits
        n == Cardinality({j \in 0..(TABLE_ENTRIES - 1) :
                            ParentIdx(s.vaddr + j * P) = idx /\ s.size - j * P >= P})
        taken == {j \in 0..(n - 1) : leaf_in_use(level, entry_at(s, junk, tbl, i0 + j))}
        \* passes completed before the panic, if any
        c == IF taken = {} THEN n ELSE Min(taken)
        written == [k \in {<<tbl, i0 + j>> : j \in 0..(c - 1)} |->
                       leaf_entry(level, rights, s.paddr + (k[2] - i0) * P)]
    IN [s EXCEPT
          !.mem = written @@ s.mem,
          !.vaddr = @ + c * P,
          !.paddr = @ + c * P,
          !.size = @ - c * P,
          !.status = IF c < n THEN "panic" ELSE "ok"]

\* One pass of the outer loop body of map_generic.
map_step(s, rights, junk) ==
    LET root == PT_BASE
        \* l0: allocate an l1 table when the l0 entry is invalid
        a1 == IF ~is_valid(entry_at(s, junk, root, L0Index(s.vaddr)))
              THEN LET t == new_l1_table(s)
                   IN set_entry_at(t.m, root, L0Index(s.vaddr), t.desc)
              ELSE s
        l1_table == get_l1_table(entry_at(a1, junk, root, L0Index(s.vaddr)))[2]
        l1_entry == entry_at(a1, junk, l1_table, L1Index(s.vaddr))
        \* l1: allocate an l2 table when the l1 entry is invalid
        a2 == IF ~is_valid(l1_entry)
              THEN LET t == new_l2_table(a1)
                   IN set_entry_at(t.m, l1_table, L1Index(s.vaddr), t.desc)
              ELSE [a1 EXCEPT !.viaBlock = @ \/ is_block(l1_entry)]
        l2_table == get_l2_table(entry_at(a2, junk, l1_table, L1Index(s.vaddr)))[2]
        l2_entry == entry_at(a2, junk, l2_table, L2Index(s.vaddr))
        \* l2: allocate an l3 table when the l2 entry is invalid
        a3 == IF ~is_valid(l2_entry)
              THEN LET t == new_l3_table(a2)
                   IN set_entry_at(t.m, l2_table, L2Index(s.vaddr), t.desc)
              ELSE [a2 EXCEPT !.viaBlock = @ \/ is_block(l2_entry)]
        l3_table == get_l3_table(entry_at(a3, junk, l2_table, L2Index(s.vaddr)))[2]
    IN IF is_aligned(s.vaddr, HUGE_PAGE_SIZE) /\ is_aligned(s.paddr, HUGE_PAGE_SIZE)
          /\ s.size >= HUGE_PAGE_SIZE
       THEN map_leaves(a1, l1_table, 1, rights, junk)
       ELSE IF is_aligned(s.vaddr, LARGE_PAGE_SIZE) /\ is_aligned(s.paddr, LARGE_PAGE_SIZE)
               /\ s.size >= LARGE_PAGE_SIZE
       THEN map_leaves(a2, l2_table, 2, rights, junk)
       ELSE map_leaves(a3, l3_table, 3, rights, junk)

RECURSIVE map_loop(_, _, _, _)
map_loop(s, vend, rights, junk) ==
    IF s.status = "ok" /\ s.vaddr < vend
    THEN map_loop(map_step(s, rights, junk), vend, rights, junk)
    ELSE s

\* map_generic(vbase, (pbase, psize), rights) on memory m = [mem, next].
\* The three alignment assertions hold by construction of the page-number
\* representation.  Result: the memory after the call, whether the call
\* returned ("ok") or aborted ("panic"), and whether it walked through an
\* entry holding a block descriptor.
map_generic(m, vbase, pbase, psize, rights, junk) ==
    map_loop([mem |-> m.mem, next |-> m.next, vaddr |-> vbase, paddr |-> pbase,
              size |-> psize, status |-> "ok", viaBlock |-> FALSE],
             vbase + psize, rights, junk)

\* resolve_addr(vaddr) for the address with page number vaddr and byte
\* offset off inside that page.
resolve_addr(m, junk, vaddr, off) ==
    LET l0_entry == entry_at(m, junk, PT_BASE, L0Index(vaddr))
        l1_table == get_l1_table(l0_entry)[2]
        l1_entry == entry_at(m, junk, l1_table, L1Index(vaddr))
        l2_table == get_l2_table(l1_entry)[2]
        l2_entry == entry_at(m, junk, l2_table, L2Index(vaddr))
        l3_table == get_l3_table(l2_entry)[2]
        l3_entry == entry_at(m, junk, l3_table, L3Index(vaddr))
    IN IF ~is_valid(l0_entry) THEN <<"None">>
       ELSE IF ~is_valid(l1_entry) THEN <<"None">>
       ELSE IF is_block(l1_entry)
            THEN <<"Some", get_frame(l1_entry)[2] + (vaddr % HUGE_PAGE_SIZE), off>>
       ELSE IF ~is_valid(l2_entry) THEN <<"None">>
       ELSE IF is_block(l2_entry)
            THEN <<"Some", get_frame(l2_entry)[2] + (vaddr % LARGE_PAGE_SIZE), off>>
       ELSE IF ~is_valid(l3_entry) THEN <<"None">>
       ELSE <<"Some", get_frame(l3_entry)[2], off>>

-----------------------------------------------------------------------------
(* Inputs of the VSpace builder: (vbase, pbase, size) in base pages. *)

VsRights == {"ReadWriteKernel", "DeviceMemoryKernel"}

VsSmallRequests ==
    {<<vb, vb + 513, n>> : vb \in {511, 512}, n \in {1, 512, 514}}
    \cup {<<512, 512, 514>>}       \* identity: one 2 MiB block and two pages

VsLargeRequests ==
    { <<262144, 524288, 262144>>,    \* one 1 GiB block
      <<262144, 524288, 262657>>,    \* 1 GiB + 2 MiB + 4 KiB
      <<262145, 524289, 1>>,         \* one base page inside the 1 GiB range
      <<262656, 524800, 512>> }      \* one 2 MiB page inside the 1 GiB range

VsRequests == VsSmallRequests \cup VsLargeRequests

Offsets == {0, 1, PAGE_BYTES - 1}

VsInit ==
    /\ mem = <<>>
    /\ nextTable = 1
    /\ vsStatus = "ok"
    /\ vsCalls = <<>>
    /\ fwMap = <<"None">>

\* The boot loader calls map_generic; a panic ends the boot loader.
VsMapGeneric ==
    /\ vsStatus = "ok"
    /\ Len(vsCalls) < MaxCalls
    /\ \E req \in VsRequests, rights \in VsRights, junk \in JunkKinds :
          \E r \in {map_generic([mem |-> mem, next |-> nextTable],
                                req[1], req[2], req[3], rights, junk)} :
             /\ mem' = r.mem
             /\ nextTable' = r.next
             /\ vsStatus' = r.status
             /\ vsCalls' = Append(vsCalls,
                                  [vbase |-> req[1], pbase |-> req[2], size |-> req[3],
                                   rights |-> rights, status |-> r.status,
                                   viaBlock |-> r.viaBlock])
    /\ UNCHANGED fwMap
    /\ UNCHANGED VsOthers

VsNext == VsMapGeneric

\* Requests for the first call on a new VSpace, among them the example of the
\* specification, requests of size 0, and requests whose virtual and physical
\* base are aligned differently.
VsFirstRequests ==
    { <<262144, 524288, 262656>>,    \* 0x4000_0000 -> 0x8000_0000, 0x4020_0000 bytes
      <<262144, 524288, 262657>>,    \* 1 GiB + 2 MiB + 4 KiB
      <<262144, 512, 262144>>,       \* vbase 1 GiB aligned, pbase 2 MiB aligned
      <<512, 1024, 513>>,            \* 2 MiB + 4 KiB
      <<511, 1023, 514>>,            \* 4 KiB + 2 MiB + 4 KiB
      <<512, 513, 512>>,             \* vbase 2 MiB aligned, pbase not
      <<511, 511, 2>>,               \* two pages across a 2 MiB boundary
      <<1, 1, 1>>,
      <<36864, 36864, 1>>,           \* the UART page
      <<512, 512, 0>>,
      <<0, 0, 0>> }

\* The first map_generic call on a new VSpace, with any rights.
VsMapGenericFirst ==
    /\ vsStatus = "ok"
    /\ vsCalls = <<>>
    /\ mem = <<>>
    /\ \E req \in VsFirstRequests, rights \in MapActions :
          \E r \in {map_generic([mem |-> mem, next |-> nextTable],
                                req[1], req[2], req[3], rights, "invalid")} :
             /\ mem' = r.mem
             /\ nextTable' = r.next
             /\ vsStatus' = r.status
             /\ vsCalls' = Append(vsCalls,
                                  [vbase |-> req[1], pbase |-> req[2], size |-> req[3],
                                   rights |-> rights, status |-> r.status,
                                   viaBlock |-> r.viaBlock])
    /\ UNCHANGED fwMap
    /\ UNCHANGED VsOthers

VsFirstNext == VsMapGenericFirst

\* map_physical_memory: the rights a firmware memory type is projected to.
project_rights(ty) ==
    CASE ty \in {"RESERVED", "UNUSABLE"} -> "None"
      [] ty \in {"LOADER_CODE", "BOOT_SERVICES_CODE", "RUNTIME_SERVICES_CODE", "PAL_CODE"}
            -> "ReadExecuteKernel"
      [] ty \in {"LOADER_DATA", "BOOT_SERVICES_DATA", "RUNTIME_SERVICES_DATA",
                 "CONVENTIONAL", "ACPI_RECLAIM", "ACPI_NON_VOLATILE", "MMIO_PORT_SPACE",
                 "PERSISTENT_MEMORY", "KERNEL_PT", "KERNEL_STACK", "UEFI_MEMORY_MAP"}
            -> "ReadWriteKernel"
      [] ty = "MMIO" -> "DeviceMemoryKernel"
      [] ty \in {"KERNEL_ELF", "KERNEL_ARGS", "MODULE"} -> "ReadKernel"
      [] OTHER -> "None"

\* map_identity(pbase, end, rights) on the state s = [mem, next, status, calls]
\* of map_physical_memory: map_generic with vbase = pbase, recorded in calls.
map_identity(s, pbase, end, rights, junk) ==
    LET r == map_generic([mem |-> s.mem, next |-> s.next], pbase, pbase, end - pbase,
                         rights, junk)
    IN [mem |-> r.mem, next |-> r.next, status |-> r.status,
        calls |-> Append(s.calls,
                         [vbase |-> pbase, pbase |-> pbase, size |-> end - pbase,
                          rights |-> rights, status |-> r.status,
                          viaBlock |-> r.viaBlock])]

\* Variant of map_descriptor that does not skip KernelElf and KernelStack.
map_descriptor_no_skip(s, entry, junk) ==
    LET rights == project_rights(entry.ty)
    IN IF rights # "None"
       THEN map_identity(s, entry.phys_start, entry.phys_start + entry.page_count,
                         rights, junk)
       ELSE s

\* map_physical_memory: the body of the loop for one descriptor
map_descriptor(s, entry, junk) ==
    LET rights == project_rights(entry.ty)
    IN IF rights # "None" /\ entry.ty \notin {"KERNEL_ELF", "KERNEL_STACK"}
       THEN map_identity(s, entry.phys_start, entry.phys_start + entry.page_count,
                         rights, junk)
       ELSE s

RECURSIVE map_descriptors(_, _, _, _)
map_descriptors(s, descs, i, junk) ==
    IF i > Len(descs) \/ s.status # "ok" THEN s
    ELSE map_descriptors(map_descriptor(s, descs[i], junk), descs, i + 1, junk)

\* Page number of the platform UART, 0x0900_0000.
UART_PAGE == 36864

\* map_physical_memory(st, kernel) for the memory map descs: the loop over
\* the descriptors, then the UART page.
map_physical_memory(m, descs, junk) ==
    LET s == map_descriptors([mem |-> m.mem, next |-> m.next, status |-> "ok",
                              calls |-> <<>>], descs, 1, junk)
    IN IF s.status # "ok" THEN s
       ELSE map_identity(s, UART_PAGE, UART_PAGE + 1, "DeviceMemoryKernel", junk)

\* Firmware memory maps: up to two descriptors over disjoint regions.
FwTypes ==
    {"RESERVED", "UNUSABLE", "CONVENTIONAL", "LOADER_CODE", "MMIO", "KERNEL_ELF",
     "KERNEL_STACK", "KERNEL_ARGS", "OEM"}
FwRegions == {<<16, 2>>, <<512, 512>>, <<UART_PAGE, 1>>, <<UART_PAGE, 512>>}
FwDescriptors ==
    {[ty |-> ty, phys_start |-> r[1], page_count |-> r[2]] : ty \in FwTypes, r \in FwRegions}
FwDisjoint(a, b) ==
    \/ a.phys_start + a.page_count <= b.phys_start
    \/ b.phys_start + b.page_count <= a.phys_start
FirmwareMaps ==
    {<<>>} \cup {<<d>> : d \in FwDescriptors}
    \cup {<<p[1], p[2]>> : p \in {q \in FwDescriptors \X FwDescriptors : FwDisjoint(q[1], q[2])}}

\* The firmware reports its memory map.
VsFirmwareMap ==
    /\ fwMap = <<"None">>
    /\ vsCalls = <<>>
    /\ \E descs \in FirmwareMaps : fwMap' = <<"Some", descs>>
    /\ UNCHANGED <<mem, nextTable, vsStatus, vsCalls>>
    /\ UNCHANGED VsOthers

\* The boot loader replicates the memory map into the new VSpace.
VsMapPhysicalMemory ==
    /\ vsStatus = "ok"
    /\ fwMap[1] = "Some"
    /\ vsCalls = <<>>
    /\ \E junk \in JunkKinds :
          \E r \in {map_physical_memory([mem |-> mem, next |-> nextTable], fwMap[2], junk)} :
             /\ mem' = r.mem
             /\ nextTable' = r.next
             /\ vsStatus' = r.status
             /\ vsCalls' = r.calls
    /\ UNCHANGED fwMap
    /\ UNCHANGED VsOthers

VsPhysNext ==
    \/ VsFirmwareMap
    \/ VsMapPhysicalMemory

-----------------------------------------------------------------------------
(* Rackscale controller: request_core,
   src/kernel/src/arch/x86_64/rackscale/processops/request_core.rs *)

\* Machine ids of the registered clients.
Machines == {1, 2}

\* Global thread id of hardware thread mtid of machine mid.
gtid_of(mid, mtid) == mid * 4096 + mtid

AllGtids == {gtid_of(m, i - 1) : m \in Machines, i \in 1..ThreadsPerMachine}

\* Controller state after the clients registered: every machine's hardware
\* threads, none in use.
CtlInit ==
    /\ hwThreads = [m \in Machines |->
                      [i \in 1..ThreadsPerMachine |->
                          [id |-> gtid_of(m, i - 1), node_id |-> 0, in_use |-> FALSE]]]
    /\ ctlStatus = "running"
    /\ rcLast = [status |-> "none"]
    /\ rcReturned = [g \in AllGtids |-> 0]
    /\ runPc = 0
    /\ runPending = [c \in Machines |-> <<>>]
    /\ runSent = 0

\* Variant of scan_hw_threads that does not mark the entry it takes.
scan_hw_threads_nomark(threads) ==
    LET free == {i \in DOMAIN threads : ~threads[i].in_use}
    IN IF free = {}
       THEN [gtid |-> <<"None">>, gtid_affinity |-> <<"None">>, hw_threads |-> threads]
       ELSE [gtid |-> <<"Some", threads[Min(free)].id>>,
             gtid_affinity |-> <<"Some", threads[Min(free)].node_id>>,
             hw_threads |-> threads]

\* The scan over client_state.hw_threads: the first entry with in_use = false
\* is taken and marked, later entries are not looked at.
scan_hw_threads(threads) ==
    LET free == {i \in DOMAIN threads : ~threads[i].in_use}
    IN IF free = {}
       THEN [gtid |-> <<"None">>, gtid_affinity |-> <<"None">>, hw_threads |-> threads]
       ELSE [gtid |-> <<"Some", threads[Min(free)].id>>,
             gtid_affinity |-> <<"Some", threads[Min(free)].node_id>>,
             hw_threads |-> [threads EXCEPT ![Min(free)].in_use = TRUE]]

\* handle_request_core(hdr, payload, state).
\*   req.decodable : decode::<RequestCoreReq>(payload) is Some
\*   req.new_pid   : the request's new_pid flag
\*   env.mids      : the machine ids dcm_resource_alloc returns
\*   env.alloc     : result of KernelNode::allocate_core_to_process
\*   env.add       : result of MlnrKernelNode::add_process
\* Result: the controller state, the reply encoded into the payload, and
\* "returned" (Ok(state)) or "panic".
handle_request_core(hw, req, env) ==
    IF ~req.decodable
    THEN [hw |-> hw, reply |-> <<"Err", "MalformedRequest">>, status |-> "returned",
          mid |-> 0]
    ELSE IF Len(env.mids) = 0
    THEN \* mids[0] on an empty vector
         [hw |-> hw, reply |-> <<"NoReply">>, status |-> "panic", mid |-> 0]
    ELSE LET mid == env.mids[1]
             scan == scan_hw_threads(hw[mid])
             hw2 == [hw EXCEPT ![mid] = scan.hw_threads]
         IN IF scan.gtid = <<"None">>
            THEN \* gtid.expect("Failed to find free thread??")
                 [hw |-> hw2, reply |-> <<"NoReply">>, status |-> "panic", mid |-> mid]
            ELSE IF env.alloc = "Ok"
            THEN IF req.new_pid /\ env.add # "Ok"
                 THEN \* add_process(..).expect("TODO ... revert state")
                      [hw |-> hw2, reply |-> <<"NoReply">>, status |-> "panic",
                       mid |-> mid]
                 ELSE [hw |-> hw2, reply |-> <<"Ok", scan.gtid[2], 0>>,
                       status |-> "returned", mid |-> mid]
            ELSE [hw |-> hw2, reply |-> <<"Err", env.alloc>>, status |-> "returned",
                  mid |-> mid]

RcRequests == [decodable : BOOLEAN, new_pid : BOOLEAN]

RcEnvs ==
    [mids : {<<>>} \cup {<<m>> : m \in Machines},
     alloc : {"Ok", "KError"},
     add : {"Ok", "KError"}]

\* The server of client c receives a RequestCore message and runs the handler.
CtlRequestCore ==
    /\ ctlStatus = "running"
    /\ \E c \in Machines, req \in RcRequests, env \in RcEnvs :
          \E r \in {handle_request_core(hwThreads, req, env)} :
             /\ hwThreads' = r.hw
             /\ ctlStatus' = IF r.status = "panic" THEN "panic" ELSE "running"
             /\ rcLast' = [client |-> c, req |-> req, env |-> env, mid |-> r.mid,
                           reply |-> r.reply, status |-> r.status,
                           before |-> hwThreads]
             /\ rcReturned' = IF r.reply[1] = "Ok"
                              THEN [rcReturned EXCEPT ![r.reply[2]] = @ + 1]
                              ELSE rcReturned
    /\ UNCHANGED runVars
    /\ UNCHANGED CtlOthers

CtlNext == CtlRequestCore

\* The RequestCore messages client c sends to its server: DCM places the
\* core on the client's own machine.
RunRequests(c) ==
    [req : [decodable : BOOLEAN, new_pid : {FALSE}],
     env : [mids : {<<c>>}, alloc : {"Ok", "KError"}, add : {"Ok"}]]

\* Client c sends a request; it waits at the server of c.
RunSend(c) ==
    /\ runSent < MaxRequests
    /\ \E m \in RunRequests(c) :
          runPending' = [runPending EXCEPT ![c] = Append(@, m)]
    /\ runSent' = runSent + 1
    /\ UNCHANGED <<hwThreads, ctlStatus, rcLast, rcReturned, runPc>>
    /\ UNCHANGED CtlOthers

\* run(): the head of a round, ETHERNET_IFACE.lock().poll(now); an error of
\* the poll is logged and the round goes on.
RunPoll ==
    /\ ctlStatus = "running"
    /\ runPc = 0
    /\ runPc' = 1
    /\ UNCHANGED <<hwThreads, ctlStatus, rcLast, rcReturned, runPending, runSent>>
    /\ UNCHANGED CtlOthers

\* The position after server k of the round.
run_next(k) == IF k = Cardinality(Machines) THEN 0 ELSE k + 1

\* run(): server.try_handle(controller_state) on the server of the round's
\* position.  Without a pending request try_handle returns at once; with
\* one, the request is received and its handler runs.
RunTryHandle ==
    /\ ctlStatus = "running"
    /\ runPc \in Machines
    /\ IF runPending[runPc] = <<>>
       THEN /\ runPc' = run_next(runPc)
            /\ UNCHANGED <<hwThreads, ctlStatus, rcLast, rcReturned, runPending>>
       ELSE \E m \in {Head(runPending[runPc])} :
            \E r \in {handle_request_core(hwThreads, m.req, m.env)} :
               /\ runPending' = [runPending EXCEPT ![runPc] = Tail(@)]
               /\ hwThreads' = r.hw
               /\ ctlStatus' = IF r.status = "panic" THEN "panic" ELSE "running"
               /\ runPc' = IF r.status = "panic" THEN runPc ELSE run_next(runPc)
               /\ rcLast' = [client |-> runPc, req |-> m.req, env |-> m.env,
                             mid |-> r.mid, reply |-> r.reply, status |-> r.status,
                             before |-> hwThreads]
               /\ rcReturned' = IF r.reply[1] = "Ok"
                                THEN [rcReturned EXCEPT ![r.reply[2]] = @ + 1]
                                ELSE rcReturned
    /\ UNCHANGED runSent
    /\ UNCHANGED CtlOthers

RunLoop == RunPoll \/ RunTryHandle

RunNext ==
    \/ \E c \in Machines : RunSend(c)
    \/ RunPoll
    \/ RunTryHandle

-----------------------------------------------------------------------------
(* RPC client, src/lib/rpc/src/client.rs *)

\* Size of an RPCHeader on the wire, in bytes.
HDR_LEN == 40

\* RPCHeader::default()
DefaultHdr == [client_id |-> 0, req_id |-> 0, pid |-> 0, msg_type |-> 0, msg_len |-> 0]

\* Transports differ in the message sizes they take.
Transports ==
    {[max_send |-> 48, max_recv |-> 48],
     [max_send |-> 56, max_recv |-> 48],
     [max_send |-> 48, max_recv |-> 56]}

\* Client::new(transport)
client_new(transport) ==
    [transport |-> transport, client_id |-> 0, req_id |-> 0, hdr |-> DefaultHdr]

\* Variant of response_mismatch that compares the request id only.
response_mismatch_req_only(hdr, cl) == hdr.req_id # cl.req_id

\* The test Client::call makes on the response header.
response_mismatch(hdr, cl) ==
    hdr.client_id # cl.client_id \/ hdr.req_id # cl.req_id

\* The request id after a call whose response passed the test.
next_req_id(req_id) == req_id + 1

\* Client::call(pid, rpc_id, data_in, data_out) with total lengths
\* data_in_len and data_out_len.  net is what the transport does during the
\* call: net.send and net.recv are "Ok" or an RPCError, net.resp is the
\* header recv_msg stores into hdr when it succeeds.
\* Result: the client afterwards, the header handed to send_msg (if any),
\* and the call's return value, or "panic" when the call aborted.
client_call(cl, pid, rpc_id, data_in_len, data_out_len, net) ==
    LET hdr1 == [cl.hdr EXCEPT !.pid = pid, !.req_id = cl.req_id,
                               !.msg_type = rpc_id, !.msg_len = data_in_len]
        hdr2 == net.resp
    IN IF ~(data_out_len + HDR_LEN <= cl.transport.max_send)
          \/ ~(data_in_len + HDR_LEN <= cl.transport.max_recv)
       THEN \* assert!(.. <= max_send()) / assert!(.. <= max_recv())
            [cl |-> cl, sent |-> <<"None">>, ret |-> <<"panic">>, received |-> FALSE]
       ELSE IF net.send # "Ok"
       THEN \* send_msg(..).unwrap()
            [cl |-> [cl EXCEPT !.hdr = hdr1], sent |-> <<"Some", hdr1>>,
             ret |-> <<"panic">>, received |-> FALSE]
       ELSE IF net.recv # "Ok"
       THEN \* recv_msg(..).unwrap()
            [cl |-> [cl EXCEPT !.hdr = hdr1], sent |-> <<"Some", hdr1>>,
             ret |-> <<"panic">>, received |-> FALSE]
       ELSE IF ~(hdr2.msg_len <= data_out_len)
       THEN \* assert!(hdr.msg_len as usize <= data_out_len)
            [cl |-> [cl EXCEPT !.hdr = hdr2], sent |-> <<"Some", hdr1>>,
             ret |-> <<"panic">>, received |-> TRUE]
       ELSE IF response_mismatch(hdr2, cl)
       THEN [cl |-> [cl EXCEPT !.hdr = hdr2], sent |-> <<"Some", hdr1>>,
             ret |-> <<"Err", "MalformedResponse">>, received |-> TRUE]
       ELSE [cl |-> [cl EXCEPT !.hdr = hdr2,
                               !.req_id = next_req_id(@),
                               !.client_id = IF rpc_id = 0 THEN hdr2.client_id ELSE @],
             sent |-> <<"Some", hdr1>>, ret |-> <<"Ok">>, received |-> TRUE]

\* Client::connect(): client_connect()?, then the registration call,
\* unwrapped.  net.connect is the result of transport.client_connect().
client_connect(cl, net) ==
    IF net.connect # "Ok"
    THEN [cl |-> cl, sent |-> <<"None">>, ret |-> <<"Err", net.connect>>,
          callret |-> <<"NotCalled">>, received |-> FALSE]
    ELSE LET r == client_call(cl, 0, 0, 0, 0, net)
         IN [cl |-> r.cl, sent |-> r.sent,
             ret |-> IF r.ret = <<"Ok">> THEN <<"Ok", r.cl.client_id>> ELSE <<"panic">>,
             callret |-> r.ret, received |-> r.received]

ClientIds == {0, 1}
DataLens == {0, 8, 16}
TransportResults == {"Ok", "Timeout"}

\* What the network can do during a call of a client whose request id is
\* req and whose receive buffers hold out_len bytes: the transport fails, or
\* delivers a response header.  A delivered response never carries more
\* payload than the receive buffers hold.
NetOutcomes(req, out_len) ==
    [connect : {"Ok"}, send : {"Timeout"}, recv : {"Ok"}, resp : {DefaultHdr}]
    \cup [connect : {"Ok"}, send : {"Ok"}, recv : {"Timeout"}, resp : {DefaultHdr}]
    \cup [connect : {"Ok"}, send : {"Ok"}, recv : {"Ok"},
          resp : [client_id : ClientIds, req_id : {req, req + 1}, pid : {0},
                  msg_type : {0}, msg_len : {0, out_len}]]

ClInit ==
    /\ client = "none"
    /\ clStatus = "none"
    /\ clLog = <<>>
    /\ clLast = [op |-> "none"]

ClNew ==
    /\ clStatus = "none"
    /\ \E t \in Transports :
          /\ client' = client_new(t)
          /\ clStatus' = "new"
    /\ UNCHANGED <<clLog, clLast>>
    /\ UNCHANGED ClOthers

ClLogEntry(r) == [sent |-> r.sent, ret |-> r.ret]

ClConnect ==
    /\ clStatus = "new"
    /\ Len(clLog) < MaxClientCalls
    /\ \E net \in NetOutcomes(client.req_id, 0)
              \cup {[connect |-> "Timeout", send |-> "Ok", recv |-> "Ok",
                     resp |-> DefaultHdr]} :
          \E r \in {client_connect(client, net)} :
             /\ client' = r.cl
             /\ clStatus' = CASE r.ret[1] = "Ok" -> "connected"
                              [] r.ret[1] = "Err" -> "new"
                              [] OTHER -> "panic"
             /\ clLog' = IF r.callret = <<"NotCalled">> THEN clLog
                         ELSE Append(clLog, [sent |-> r.sent, ret |-> r.callret])
             /\ clLast' = [op |-> "connect", net |-> net, ret |-> r.ret,
                           callret |-> r.callret, sent |-> r.sent, out_len |-> 0,
                           received |-> r.received,
                           before |-> client]
    /\ UNCHANGED ClOthers

ClCall ==
    /\ clStatus = "connected"
    /\ Len(clLog) < MaxClientCalls
    /\ \E in_len \in DataLens, out_len \in DataLens :
       \E net \in NetOutcomes(client.req_id, out_len) :
          \E r \in {client_call(client, 7, 1, in_len, out_len, net)} :
             /\ client' = r.cl
             /\ clStatus' = IF r.ret = <<"panic">> THEN "panic" ELSE "connected"
             /\ clLog' = Append(clLog, ClLogEntry(r))
             /\ clLast' = [op |-> "call", net |-> net, ret |-> r.ret,
                           callret |-> r.ret, sent |-> r.sent, out_len |-> out_len,
                           received |-> r.received,
                           before |-> client]
    /\ UNCHANGED ClOthers

ClNext == ClNew \/ ClConnect \/ ClCall

-----------------------------------------------------------------------------
(* Exception dispatch, src/kernel/src/arch/x86_64/irq.rs *)

\* SaveArea::empty(); rax stands for the general-purpose registers the
\* assembly stub stores.
EmptySaveArea == [rsp |-> 0, rip |-> 0, rflags |-> 0, rax |-> 0]

NoVcpu ==
    [is_disabled |-> FALSE, pc_disabled |-> <<0, 0>>, enabled_state |-> EmptySaveArea]

\* VirtualCpu::upcalls_disabled(pc): the disabled flag, or pc inside the
\* window in which the process counts as disabled.
upcalls_disabled(vcpu, pc) ==
    vcpu.is_disabled \/ (vcpu.pc_disabled[1] <= pc /\ pc <= vcpu.pc_disabled[2])

\* VirtualCpu::disable_upcalls()
disable_upcalls(vcpu) == [vcpu EXCEPT !.is_disabled = TRUE]

\* VirtualCpu::enable_upcalls()
enable_upcalls(vcpu) == [vcpu EXCEPT !.is_disabled = FALSE]

\* Variant of kcb_resume_handle that enters the process anew.
kcb_resume_handle_entry == [kind |-> "upcall", entry |-> 0, args |-> <<>>]

\* kcb_resume_handle(kcb): restore from the KCB's save area
kcb_resume_handle == [kind |-> "restore", entry |-> 0, args |-> <<>>]

\* Process::upcall(vector, exception): resume at the process's upcall entry
upcall(p, vector, exception) ==
    [kind |-> "upcall", entry |-> p.upcall_entry, args |-> <<vector, exception>>]

\* Variant of copy_save_area that leaves the enabled-state slot as it was.
copy_save_area_skipped(area, vcpu) == vcpu

\* copy_nonoverlapping(&CURRENT_SAVE_AREA, &mut vcpu.enabled_state, 1)
copy_save_area(area, vcpu) == [vcpu EXCEPT !.enabled_state = area]

\* Number of entries of the IDT and of IRQ_HANDLERS.
IDT_SIZE == 256

\* register_handler(vector, handler): handlers is the set of vectors whose
\* entry no longer is the default unhandled_irq.
register_handler(handlers, vector) ==
    IF vector > IDT_SIZE - 1 THEN handlers ELSE handlers \cup {vector}

\* handle_generic_exception(a), entered with the save area as the assembly
\* stub left it.  The function ends in resumer.resume(), which does not
\* return, or aborts in the unwrap of the current process; the dispatch on
\* the vector that follows the block (gp_handler, pf_handler, dbg_handler,
\* IRQ_HANDLERS) is therefore never executed and has no part in the result.
\* The first statements of handle_generic_exception: the user stack, the
\* instruction pointer and the flags go into CURRENT_SAVE_AREA.
save_trap_context(area, a) ==
    [area EXCEPT !.rsp = a.rsp, !.rip = a.rip, !.rflags = a.rflags]

\* The rest of handle_generic_exception, run on CURRENT_SAVE_AREA as it is
\* then: the choice of the resume handle.  invoked is the set of vectors
\* whose IRQ_HANDLERS entry was called, empty since that call is not reached.
resume_from_trap(area1, p, a) ==
    LET was_disabled == IF p.has_vcpu THEN upcalls_disabled(p.vcpu_ctl, area1.rip)
                        ELSE TRUE
        p1 == IF p.has_vcpu THEN [p EXCEPT !.vcpu_ctl = disable_upcalls(@)] ELSE p
    IN IF ~p.present
       THEN \* plock.as_mut().unwrap() without a current process
            [csa |-> area1, proc |-> p, status |-> "panic", invoked |-> {},
             resumer |-> [kind |-> "none", entry |-> 0, args |-> <<>>]]
       ELSE IF was_disabled
       THEN [csa |-> area1, proc |-> p1, status |-> "running", invoked |-> {},
             resumer |-> kcb_resume_handle]
       ELSE [csa |-> area1,
             proc |-> [p1 EXCEPT !.vcpu_ctl = copy_save_area(area1, @)],
             status |-> "running", invoked |-> {},
             resumer |-> upcall(p1, a.vector, a.exception)]

handle_generic_exception(area, p, a) ==
    resume_from_trap(save_trap_context(area, a), p, a)

ExceptionArgs ==
    [vector : {3, 13, 14, 32}, exception : {0, 2}, rip : {4096, 8192, 12287},
     rsp : {28672, 32768}, rflags : {514}]

IrqProcesses ==
    { [present |-> FALSE, has_vcpu |-> FALSE, vcpu_ctl |-> NoVcpu, upcall_entry |-> 0],
      [present |-> TRUE, has_vcpu |-> FALSE, vcpu_ctl |-> NoVcpu, upcall_entry |-> 16384],
      [present |-> TRUE, has_vcpu |-> TRUE,
       vcpu_ctl |-> [NoVcpu EXCEPT !.pc_disabled = <<8192, 12287>>],
       upcall_entry |-> 16384] }

\* Before a core takes its first exception.
NoException == [vector |-> 0, exception |-> 0, rip |-> 0, rsp |-> 0, rflags |-> 0]

\* The exceptions core c takes: a timer interrupt at one of two user pcs,
\* with a stack of the core's own.
SmpArgs(c) ==
    [vector : {32}, exception : {0}, rip : {4096 + c, 4112 + c}, rsp : {28672 + 8 * c},
     rflags : {514}]

\* The process that runs on each core.
SmpProcess ==
    [present |-> TRUE, has_vcpu |-> TRUE,
     vcpu_ctl |-> [NoVcpu EXCEPT !.pc_disabled = <<8192, 12287>>],
     upcall_entry |-> 16384]

IrqInit ==
    /\ csa = EmptySaveArea
    /\ proc = [present |-> FALSE, has_vcpu |-> FALSE, vcpu_ctl |-> NoVcpu,
               upcall_entry |-> 0]
    /\ irqStatus = "boot"
    /\ irqLast = [op |-> "none"]
    /\ irqHandlers = {}
    /\ irqLock = <<"free">>
    /\ smpPc = [c \in 1..NumCores |-> "user"]
    /\ smpArgs = [c \in 1..NumCores |-> NoException]
    /\ smpProc = [c \in 1..NumCores |-> SmpProcess]
    /\ smpLast = [op |-> "none"]

\* Kernel initialisation registers a handler for a vector.
IrqRegisterHandler ==
    /\ irqStatus \in {"boot", "running"}
    /\ irqLock = <<"free">>
    /\ \E vector \in {14, 32, IDT_SIZE} :
          /\ irqHandlers' = register_handler(irqHandlers, vector)
          /\ irqLast' = [op |-> "register_handler", vector |-> vector]
    /\ UNCHANGED <<csa, proc, irqStatus>>
    /\ UNCHANGED <<irqLock, smpVars>>
    /\ UNCHANGED IrqOthers

\* The scheduler makes a process current on the core (or leaves it idle).
IrqSchedule ==
    /\ irqStatus = "boot"
    /\ \E p \in IrqProcesses : proc' = p
    /\ irqStatus' = "running"
    /\ irqLast' = [op |-> "schedule"]
    /\ UNCHANGED <<csa, irqHandlers>>
    /\ UNCHANGED <<irqLock, smpVars>>
    /\ UNCHANGED IrqOthers

\* An exception or interrupt arrives: the stub stores the registers, then
\* handle_generic_exception runs with interrupts disabled.
IrqException ==
    /\ irqStatus = "running"
    /\ \E a \in ExceptionArgs, regs \in {0, 1} :
          \E r \in {handle_generic_exception([csa EXCEPT !.rax = regs], proc, a)} :
             /\ csa' = r.csa
             /\ proc' = r.proc
             /\ irqStatus' = r.status
             /\ irqLast' = [op |-> "exception", a |-> a, regs |-> regs,
                            resumer |-> r.resumer, lock |-> irqLock,
                            invoked |-> r.invoked]
    /\ UNCHANGED irqHandlers
    /\ UNCHANGED <<irqLock, smpVars>>
    /\ UNCHANGED IrqOthers

\* The resumed process turns upcalls back on.
IrqEnableUpcalls ==
    /\ irqStatus = "running"
    /\ proc.present /\ proc.has_vcpu /\ proc.vcpu_ctl.is_disabled
    /\ proc' = [proc EXCEPT !.vcpu_ctl = enable_upcalls(@)]
    /\ irqLast' = [op |-> "enable_upcalls"]
    /\ UNCHANGED <<csa, irqStatus, irqHandlers>>
    /\ UNCHANGED <<irqLock, smpVars>>
    /\ UNCHANGED IrqOthers

IrqNext == IrqRegisterHandler \/ IrqSchedule \/ IrqException \/ IrqEnableUpcalls

\* register_handler up to IRQ_HANDLERS.lock() for a vector of the table.
IrqRegisterLock ==
    /\ irqStatus \in {"boot", "running"}
    /\ irqLock = <<"free">>
    /\ \E vector \in {14, 32} : irqLock' = <<"held", vector>>
    /\ UNCHANGED <<csa, proc, irqStatus, irqLast, irqHandlers, smpVars>>
    /\ UNCHANGED IrqOthers

\* register_handler from the store into the table to the release of the lock.
IrqRegisterStore ==
    /\ irqLock[1] = "held"
    /\ irqHandlers' = register_handler(irqHandlers, irqLock[2])
    /\ irqLast' = [op |-> "register_handler", vector |-> irqLock[2]]
    /\ irqLock' = <<"free">>
    /\ UNCHANGED <<csa, proc, irqStatus, smpVars>>
    /\ UNCHANGED IrqOthers

IrqLockNext ==
    \/ IrqRegisterLock
    \/ IrqRegisterStore
    \/ IrqSchedule
    \/ IrqException
    \/ IrqEnableUpcalls

\* Core c traps: the stub stores the registers and handle_generic_exception
\* stores rsp, rip and rflags, all into the one static CURRENT_SAVE_AREA.
SmpTrapEntry(c) ==
    /\ smpPc[c] = "user"
    /\ \E a \in SmpArgs(c) :
          /\ csa' = save_trap_context([csa EXCEPT !.rax = c], a)
          /\ smpArgs' = [smpArgs EXCEPT ![c] = a]
    /\ smpPc' = [smpPc EXCEPT ![c] = "trap"]
    /\ UNCHANGED <<smpProc, smpLast>>
    /\ UNCHANGED <<proc, irqStatus, irqLast, irqHandlers, irqLock>>
    /\ UNCHANGED IrqOthers

\* Core c goes on in handle_generic_exception: it reads CURRENT_SAVE_AREA as
\* it is now, picks the resume handle and resumes.
SmpTrapResume(c) ==
    /\ smpPc[c] = "trap"
    /\ \E r \in {resume_from_trap(csa, smpProc[c], smpArgs[c])} :
          /\ smpProc' = [smpProc EXCEPT ![c] = r.proc]
          /\ smpLast' = [op |-> "resume", core |-> c, a |-> smpArgs[c],
                         resumer |-> r.resumer]
    /\ smpPc' = [smpPc EXCEPT ![c] = "user"]
    /\ UNCHANGED <<csa, smpArgs>>
    /\ UNCHANGED <<proc, irqStatus, irqLast, irqHandlers, irqLock>>
    /\ UNCHANGED IrqOthers

\* The process on core c turns upcalls back on.
SmpEnableUpcalls(c) ==
    /\ smpPc[c] = "user"
    /\ smpProc[c].vcpu_ctl.is_disabled
    /\ smpProc' = [smpProc EXCEPT ![c].vcpu_ctl = enable_upcalls(@)]
    /\ smpLast' = [op |-> "enable_upcalls", core |-> c]
    /\ UNCHANGED <<csa, smpPc, smpArgs>>
    /\ UNCHANGED <<proc, irqStatus, irqLast, irqHandlers, irqLock>>
    /\ UNCHANGED IrqOthers

SmpNext ==
    \E c \in 1..NumCores :
        \/ SmpTrapEntry(c)
        \/ SmpTrapResume(c)
        \/ SmpEnableUpcalls(c)

-----------------------------------------------------------------------------
(* Remote debugger target, src/kernel/src/arch/x86_64/gdb/mod.rs *)

\* RFlags::FLAGS_TF, the trap flag (bit 8).
FLAGS_TF == 256

\* BitField::get_bit / set_bit on an integer.
Pow2(n) == IF n = 0 THEN 1 ELSE IF n = 1 THEN 2 ELSE IF n = 2 THEN 4 ELSE 8
get_bit(x, idx) == (x \div Pow2(idx)) % 2 = 1
set_bit(x, idx, v) ==
    IF get_bit(x, idx) = v THEN x
    ELSE IF v THEN x + Pow2(idx) ELSE x - Pow2(idx)

\* Some(BreakState(va, ty, req)); a Breakpoint has no watch kind.
NoBreak == <<"None">>
BreakState(va, ty, kind, req) ==
    <<"Some", [va |-> va, ty |-> ty, kind |-> kind, req |-> req]>>

\* KernelDebugger::new()
KernelDebugger_new ==
    [hw_break_points |-> <<NoBreak, NoBreak, NoBreak, NoBreak>>,
     signal |-> "None", resume_with |-> "None"]

\* Slot numbers: slot i of the model is entry i - 1 of hw_break_points and
\* bit i - 1 of enabled_bps.  The configuration written to the debug
\* registers themselves (reg.configure, reg.disable_global) is not part of
\* the state modelled.
BreakSlots == 1..4

\* Variant of add_breakpoint that forgets to mark the register in the save area.
add_breakpoint_nobit(kd, sa, req, addr) ==
    LET free == {i \in BreakSlots : kd.hw_break_points[i] = NoBreak}
    IN IF free = {}
       THEN [kdebug |-> kd, save |-> sa, ret |-> <<"Ok", FALSE>>]
       ELSE [kdebug |-> [kd EXCEPT !.hw_break_points[Min(free)] =
                                      BreakState(addr, "Breakpoint", "-", req)],
             save |-> sa, ret |-> <<"Ok", TRUE>>]

\* KernelDebugger::add_breakpoint(req, addr, _kind)
add_breakpoint(kd, sa, req, addr) ==
    LET free == {i \in BreakSlots : kd.hw_break_points[i] = NoBreak}
    IN IF free = {}
       THEN [kdebug |-> kd, save |-> sa, ret |-> <<"Ok", FALSE>>]
       ELSE [kdebug |-> [kd EXCEPT !.hw_break_points[Min(free)] =
                                      BreakState(addr, "Breakpoint", "-", req)],
             save |-> [sa EXCEPT !.enabled_bps = set_bit(@, Min(free) - 1, TRUE)],
             ret |-> <<"Ok", TRUE>>]

\* KernelDebugger::remove_breakpoint(req, addr, _kind)
remove_breakpoint(kd, sa, req, addr) ==
    LET hit == {i \in BreakSlots :
                   /\ kd.hw_break_points[i] # NoBreak
                   /\ kd.hw_break_points[i][2].ty = "Breakpoint"
                   /\ kd.hw_break_points[i][2].va = addr
                   /\ kd.hw_break_points[i][2].req = req}
    IN IF hit = {}
       THEN [kdebug |-> kd, save |-> sa, ret |-> <<"Ok", FALSE>>]
       ELSE [kdebug |-> [kd EXCEPT !.hw_break_points[Min(hit)] = NoBreak],
             save |-> [sa EXCEPT !.enabled_bps = set_bit(@, Min(hit) - 1, FALSE)],
             ret |-> <<"Ok", TRUE>>]

\* HwWatchpoint::add_hw_watchpoint(addr, len, kind); len only selects the
\* break size written to the debug register.
add_hw_watchpoint(kd, sa, addr, len, kind) ==
    LET free == {i \in BreakSlots : kd.hw_break_points[i] = NoBreak}
    IN IF free = {}
       THEN [kdebug |-> kd, save |-> sa, ret |-> <<"Ok", FALSE>>]
       ELSE [kdebug |-> [kd EXCEPT !.hw_break_points[Min(free)] =
                                      BreakState(addr, "Watchpoint", kind, "Hardware")],
             save |-> [sa EXCEPT !.enabled_bps = set_bit(@, Min(free) - 1, TRUE)],
             ret |-> <<"Ok", TRUE>>]

\* HwWatchpoint::remove_hw_watchpoint(addr, _len, kind).  The pattern
\* BreakType::Watchpoint(kind) binds a new kind, so the watch kind of the
\* request is not compared.
remove_hw_watchpoint(kd, sa, addr, len, kind) ==
    LET hit == {i \in BreakSlots :
                   /\ kd.hw_break_points[i] # NoBreak
                   /\ kd.hw_break_points[i][2].ty = "Watchpoint"
                   /\ kd.hw_break_points[i][2].va = addr
                   /\ kd.hw_break_points[i][2].req = "Hardware"}
    IN IF hit = {}
       THEN [kdebug |-> kd, save |-> sa, ret |-> <<"Ok", FALSE>>]
       ELSE [kdebug |-> [kd EXCEPT !.hw_break_points[Min(hit)] = NoBreak],
             save |-> [sa EXCEPT !.enabled_bps = set_bit(@, Min(hit) - 1, FALSE)],
             ret |-> <<"Ok", TRUE>>]

\* SwBreakpoint / HwBreakpoint delegate to add_breakpoint / remove_breakpoint.
add_sw_breakpoint(kd, sa, addr) == add_breakpoint(kd, sa, "Software", addr)
remove_sw_breakpoint(kd, sa, addr) == remove_breakpoint(kd, sa, "Software", addr)
add_hw_breakpoint(kd, sa, addr) == add_breakpoint(kd, sa, "Hardware", addr)
remove_hw_breakpoint(kd, sa, addr) == remove_breakpoint(kd, sa, "Hardware", addr)

\* Highest page of the address space the memory operations are tried on.
MaxPage == 3

\* kpi::arch::VADDR_RANGE, here the bytes of pages 1..MaxPage.
VADDR_RANGE == PAGE_BYTES..((MaxPage + 1) * PAGE_BYTES - 1)

\* Rights of a mapping as resolve returns them.
PageRights ==
    { [r |-> FALSE, w |-> FALSE, x |-> FALSE],    \* MapAction::None
      [r |-> TRUE, w |-> FALSE, x |-> FALSE],
      [r |-> TRUE, w |-> TRUE, x |-> FALSE],
      [r |-> TRUE, w |-> FALSE, x |-> TRUE],
      [r |-> TRUE, w |-> TRUE, x |-> TRUE] }

\* ReadOnlyPageTable::resolve(va): the rights of the page, or Err.
pt_resolve(pt, va) ==
    IF (va \div PAGE_BYTES) \in DOMAIN pt THEN <<"Ok", pt[va \div PAGE_BYTES]>>
    ELSE <<"Err">>

\* Variant of needs_check that looks at the first byte only.
needs_check_first_only(start_addr, i) == i = 0

\* The bytes at which read_addrs and write_addrs consult the page table.
needs_check(start_addr, i) == i = 0 \/ (start_addr + i) % PAGE_BYTES = 0

\* The loop of read_addrs / write_addrs over i in 0..len-1, in closed form:
\* refused is the set of pages for which the test made at the first byte
\* accessed in the page returns the error.  The first byte of each page of
\* the request is the only place where a test can be due.  Result: Ok or
\* Err(NonFatal), and the pages of the bytes accessed before the loop ended.
access_loop(start_addr, len, refused) ==
    LET pages == IF len = 0 THEN {}
                 ELSE (start_addr \div PAGE_BYTES)..((start_addr + len - 1) \div PAGE_BYTES)
        first(p) == IF p * PAGE_BYTES > start_addr THEN p * PAGE_BYTES - start_addr ELSE 0
        stops == {first(p) : p \in {q \in pages : /\ needs_check(start_addr, first(q))
                                                 /\ q \in refused}}
        done == IF stops = {} THEN len ELSE Min(stops)
    IN [ret |-> IF stops = {} THEN <<"Ok">> ELSE <<"Err", "NonFatal">>,
        accessed |-> IF done = 0 THEN {}
                     ELSE (start_addr \div PAGE_BYTES)..((start_addr + done - 1) \div PAGE_BYTES),
        bytes |-> done]

\* Pages a request of the model can reach.
ReachablePages == 0..(MaxPage + 2)

\* SingleThreadOps::read_addrs(start_addr, data) with len = data.len()
read_addrs(pt, start_addr, len) ==
    LET refused == {p \in ReachablePages :
                       LET res == pt_resolve(pt, p * PAGE_BYTES)
                       IN res[1] = "Err" \/ ~res[2].r}
    IN IF start_addr \notin VADDR_RANGE
       THEN [ret |-> <<"Err", "NonFatal">>, accessed |-> {}, bytes |-> 0]
       ELSE access_loop(start_addr, len, refused)

\* SingleThreadOps::write_addrs(start_addr, data) with len = data.len()
write_addrs(pt, start_addr, len) ==
    LET refused == {p \in ReachablePages :
                       LET res == pt_resolve(pt, p * PAGE_BYTES)
                       IN \/ start_addr \notin VADDR_RANGE
                          \/ res[1] = "Err"
                          \/ res[2].x
                          \/ ~res[2].w}
    IN access_loop(start_addr, len, refused)

\* ThreadStopReason values event_loop hands to gdbstub.
NoStop == <<"None">>
StopReason(r, kind, addr) == <<"Some", [r |-> r, kind |-> kind, addr |-> addr]>>

Dr6Flags == {"B0", "B1", "B2", "B3", "BD", "BS", "BT", "RTM"}
Dr6B(n) == IF n = 0 THEN "B0" ELSE IF n = 1 THEN "B1" ELSE IF n = 2 THEN "B2" ELSE "B3"

\* Variant of hit_slot that always looks at the first slot.
hit_slot_first(kd, hits) == kd.hw_break_points[1]

\* The if-chain over B0..B3: the slot of the lowest condition bit that is set.
hit_slot(kd, hits) == kd.hw_break_points[Min(hits) + 1]

\* KernelDebugger::determine_stop_reason(reason) with dr the value dr6()
\* returns.  Result: the stop reason, the value passed to dr6_write, and
\* "panic" where the function runs into unimplemented!().
determine_stop_reason(kd, dr, reason) ==
    IF reason = "ConnectionInterrupt"
    THEN [stop |-> StopReason("Signal5", "-", 0), dr6 |-> dr, status |-> "ok"]
    ELSE IF reason = "BreakpointInterrupt"
    THEN [stop |-> NoStop, dr6 |-> dr, status |-> "panic"]
    ELSE LET hits == {n \in 0..3 : Dr6B(n) \in dr}
             bp == IF hits = {} THEN NoBreak ELSE hit_slot(kd, hits)
             dr1 == IF hits = {} THEN dr ELSE dr \ {Dr6B(Min(hits))}
             isSome == bp # NoBreak
             swWatch == isSome /\ bp[2].ty = "Watchpoint" /\ bp[2].req = "Software"
             stop == IF isSome /\ bp[2].ty = "Breakpoint" /\ bp[2].req = "Hardware"
                     THEN StopReason("HwBreak", "-", 0)
                     ELSE IF isSome /\ bp[2].ty = "Breakpoint" /\ bp[2].req = "Software"
                     THEN StopReason("SwBreak", "-", 0)
                     ELSE IF isSome /\ bp[2].ty = "Watchpoint" /\ bp[2].req = "Hardware"
                     THEN StopReason("Watch", bp[2].kind, bp[2].va)
                     ELSE IF "BS" \in dr1
                     THEN StopReason("DoneStep", "-", 0)
                     ELSE NoStop
             dr2 == IF ~isSome /\ "BS" \in dr1 THEN dr1 \ {"BS"} ELSE dr1
             dr3 == IF dr2 \ {"RTM"} # {} THEN {} ELSE dr2
         IN IF swWatch
            THEN \* unimplemented!() before dr6_write
                 [stop |-> NoStop, dr6 |-> dr, status |-> "panic"]
            ELSE [stop |-> stop, dr6 |-> dr3, status |-> "ok"]

has_tf(rflags) == (rflags \div FLAGS_TF) % 2 = 1

\* Variant of event_loop_exit whose Continue arm leaves TF as it is.
event_loop_exit_keep_tf(kd, sa) ==
    IF kd.resume_with = "SingleStep"
    THEN [kdebug |-> [kd EXCEPT !.resume_with = "None"],
          save |-> [sa EXCEPT !.rflags = IF has_tf(@) THEN @ ELSE @ + FLAGS_TF],
          status |-> "returned"]
    ELSE IF kd.resume_with = "Continue"
    THEN [kdebug |-> [kd EXCEPT !.resume_with = "None"], save |-> sa,
          status |-> "returned"]
    ELSE [kdebug |-> kd, save |-> sa, status |-> "panic"]

\* The end of event_loop, after the loop: match target.resume_with.take().
event_loop_exit(kd, sa) ==
    IF kd.resume_with = "Continue"
    THEN [kdebug |-> [kd EXCEPT !.resume_with = "None"],
          save |-> [sa EXCEPT !.rflags = IF has_tf(@) THEN @ - FLAGS_TF ELSE @],
          status |-> "returned"]
    ELSE IF kd.resume_with = "SingleStep"
    THEN [kdebug |-> [kd EXCEPT !.resume_with = "None"],
          save |-> [sa EXCEPT !.rflags = IF has_tf(@) THEN @ ELSE @ + FLAGS_TF],
          status |-> "returned"]
    ELSE \* unimplemented!("Resume strategy not handled...")
         [kdebug |-> kd, save |-> sa, status |-> "panic"]

\* SingleThreadSingleStep::step(signal) / SingleThreadOps::resume(signal);
\* both assert that no signal is passed.
step(kd, signal) ==
    IF signal # "None" THEN [kdebug |-> kd, status |-> "panic"]
    ELSE [kdebug |-> [kd EXCEPT !.signal = signal, !.resume_with = "SingleStep"],
          status |-> "ok"]

resume(kd, signal) ==
    IF signal # "None" THEN [kdebug |-> kd, status |-> "panic"]
    ELSE [kdebug |-> [kd EXCEPT !.signal = signal, !.resume_with = "Continue"],
          status |-> "ok"]

\* write_registers(regs): of the registers only rflags is modelled.
write_registers(sa, eflags) == [sa EXCEPT !.rflags = eflags]

KCoreStopReasons == {"DebugInterrupt", "BreakpointInterrupt", "ConnectionInterrupt"}

\* Condition bits the hardware may have set when the debug exception arrives.
Dr6Inputs ==
    { {}, {"B0"}, {"B1"}, {"B2"}, {"B3"}, {"BS"}, {"RTM"}, {"B1", "RTM"},
      {"B0", "B2"}, {"B3", "BS"}, {"BS", "RTM"}, {"BD"} }

HwBreakAddrs == {4096}
SwBreakAddrs == {8192}
WatchAddrs == {8192}
WatchKinds == {"Read", "Write", "ReadWrite"}

IdleLoop == [pc |-> "idle", stm |-> "None", stop_reason |-> NoStop, requested |-> "None"]

GdbInit ==
    /\ kdebug = KernelDebugger_new
    /\ gdbSave = [rflags |-> 2, enabled_bps |-> 0]
    /\ dr6 = {}
    /\ gdbStub = "Pump"
    /\ gdbLoop = IdleLoop
    /\ gdbPt = <<>>
    /\ gdbLast = [op |-> "none"]

\* event_loop(reason) up to the loop: the parked state machine is taken out
\* of GDB_STUB and the stop reason is determined.
GdbEventLoopEnter ==
    /\ gdbLoop.pc = "idle"
    /\ \E reason \in KCoreStopReasons, hw \in Dr6Inputs :
          LET dr == IF reason = "DebugInterrupt" THEN dr6 \cup hw ELSE dr6
          IN IF gdbStub = "None"
             THEN \* GDB_STUB.lock().take().unwrap()
                  /\ gdbLoop' = [gdbLoop EXCEPT !.pc = "panic"]
                  /\ gdbLast' = [op |-> "event_loop", status |-> "panic",
                                 requested |-> "None"]
                  /\ UNCHANGED <<dr6, gdbStub>>
             ELSE \E r \in {determine_stop_reason(kdebug, dr, reason)} :
                  /\ dr6' = r.dr6
                  /\ gdbStub' = "None"
                  /\ gdbLoop' = [pc |-> IF r.status = "panic" THEN "panic" ELSE "loop",
                                 stm |-> gdbStub, stop_reason |-> r.stop,
                                 requested |-> "None"]
                  /\ gdbLast' = [op |-> "determine_stop_reason", reason |-> reason,
                                 dr6 |-> dr, stop |-> r.stop, status |-> r.status]
    /\ UNCHANGED <<kdebug, gdbSave, gdbPt>>
    /\ UNCHANGED GdbOthers

\* The loop is at a Pump iteration: the next packet makes gdbstub call a
\* target operation.
InPump == gdbLoop.pc = "loop" /\ gdbLoop.stm = "Pump"

\* A break/watchpoint operation called from pump(); the machine stays in Pump.
GdbBreakOp(name, r) ==
    /\ kdebug' = r.kdebug
    /\ gdbSave' = r.save
    /\ gdbLast' = [op |-> name, ret |-> r.ret,
                   before |-> [hw_break_points |-> kdebug.hw_break_points,
                               enabled_bps |-> gdbSave.enabled_bps]]
    /\ UNCHANGED <<dr6, gdbStub, gdbLoop, gdbPt>>
    /\ UNCHANGED GdbOthers

GdbAddHwBreakpoint ==
    /\ InPump
    /\ \E addr \in HwBreakAddrs :
          GdbBreakOp("add", add_hw_breakpoint(kdebug, gdbSave, addr))

GdbAddSwBreakpoint ==
    /\ InPump
    /\ \E addr \in SwBreakAddrs :
          GdbBreakOp("add", add_sw_breakpoint(kdebug, gdbSave, addr))

GdbAddHwWatchpoint ==
    /\ InPump
    /\ \E addr \in WatchAddrs, kind \in WatchKinds :
          GdbBreakOp("add", add_hw_watchpoint(kdebug, gdbSave, addr, 8, kind))

GdbRemoveHwBreakpoint ==
    /\ InPump
    /\ \E addr \in HwBreakAddrs \cup SwBreakAddrs :
          GdbBreakOp("remove", remove_hw_breakpoint(kdebug, gdbSave, addr))

GdbRemoveSwBreakpoint ==
    /\ InPump
    /\ \E addr \in SwBreakAddrs \cup HwBreakAddrs :
          GdbBreakOp("remove", remove_sw_breakpoint(kdebug, gdbSave, addr))

GdbRemoveHwWatchpoint ==
    /\ InPump
    /\ \E addr \in WatchAddrs \cup HwBreakAddrs, kind \in {"Read"} :
          GdbBreakOp("remove", remove_hw_watchpoint(kdebug, gdbSave, addr, 8, kind))

\* The end of event_loop once the loop was left: the exit match runs, and
\* stub is what GDB_STUB holds afterwards.
GdbLeave(stub) ==
    \E x \in {event_loop_exit(kdebug, gdbSave)} :
       /\ kdebug' = x.kdebug
       /\ gdbSave' = x.save
       /\ gdbStub' = stub
       /\ gdbLoop' = [IdleLoop EXCEPT !.pc = IF x.status = "panic" THEN "panic" ELSE "idle"]
       /\ gdbLast' = [op |-> "event_loop", status |-> x.status,
                      requested |-> gdbLoop.requested]

\* vCont;s and vCont;c: gdbstub calls step() / resume() and moves to
\* DeferredStopReason.
GdbResumeRequest(name, r) ==
    /\ kdebug' = r.kdebug
    /\ gdbLoop' = IF r.status = "panic" THEN [gdbLoop EXCEPT !.pc = "panic"]
                  ELSE [gdbLoop EXCEPT !.stm = "DeferredStopReason", !.requested = name]
    /\ gdbLast' = [op |-> name, status |-> r.status]
    /\ UNCHANGED <<gdbSave, dr6, gdbStub, gdbPt>>
    /\ UNCHANGED GdbOthers

GdbStep ==
    /\ InPump
    /\ \E signal \in {"None", "Some"} : GdbResumeRequest("step", step(kdebug, signal))

GdbResume ==
    /\ InPump
    /\ \E signal \in {"None", "Some"} : GdbResumeRequest("resume", resume(kdebug, signal))

GdbWriteRegisters ==
    /\ InPump
    /\ \E eflags \in {2, 2 + FLAGS_TF} :
          /\ gdbSave' = write_registers(gdbSave, eflags)
          /\ gdbLast' = [op |-> "write_registers", eflags |-> eflags]
    /\ UNCHANGED <<kdebug, dr6, gdbStub, gdbLoop, gdbPt>>
    /\ UNCHANGED GdbOthers

\* pump() in the Pump state reports a disconnect or an error: break.
GdbPumpBreak ==
    /\ InPump
    /\ GdbLeave("None")
    /\ UNCHANGED <<dr6, gdbPt>>
    /\ UNCHANGED GdbOthers

\* One iteration of the loop in the DeferredStopReason state.
\*   data  : conn.peek() shows a byte
\*   event : what pump() returns for it
\*   next  : what deferred_stop_reason() returns
GdbDeferred ==
    /\ gdbLoop.pc = "loop" /\ gdbLoop.stm = "DeferredStopReason"
    /\ \E data \in BOOLEAN, event \in {"None", "CtrlCInterrupt", "Disconnect", "Err"},
          next \in {"Pump", "Disconnect"} :
          LET sr == gdbLoop.stop_reason
              report == /\ next = "Pump"
                        /\ gdbLoop' = [gdbLoop EXCEPT !.stm = "Pump", !.stop_reason = NoStop]
                        /\ gdbLast' = [op |-> "deferred_stop_reason", stop |-> sr]
                        /\ UNCHANGED <<kdebug, gdbSave, gdbStub>>
              stay == /\ UNCHANGED <<kdebug, gdbSave, gdbStub, gdbLoop>>
                      /\ gdbLast' = [op |-> "pump", event |-> event]
              abort == /\ gdbLoop' = [gdbLoop EXCEPT !.pc = "panic"]
                       /\ gdbLast' = [op |-> "event_loop", status |-> "panic",
                                      requested |-> gdbLoop.requested,
                                      event |-> event, pending |-> sr]
                       /\ UNCHANGED <<kdebug, gdbSave, gdbStub>>
          IN IF data
             THEN CASE event = "None" -> stay
                    [] event = "CtrlCInterrupt" ->
                          IF sr = NoStop THEN stay
                          ELSE IF sr # StopReason("Signal5", "-", 0)
                          THEN abort      \* assert_eq!(stop_reason, Signal(5))
                          ELSE IF next = "Pump" THEN report ELSE GdbLeave("None")
                    [] OTHER -> GdbLeave("None")
             ELSE IF sr # NoStop
             THEN IF next = "Pump" THEN report ELSE GdbLeave("None")
             ELSE IF kdebug.resume_with # "None"
             THEN GdbLeave("DeferredStopReason")
             ELSE abort                     \* unreachable!("Can't happen?")
    /\ UNCHANGED <<dr6, gdbPt>>
    /\ UNCHANGED GdbOthers

MemStarts == {0, 2 * PAGE_BYTES - 1, 2 * PAGE_BYTES, 3 * PAGE_BYTES - 2}
MemLens == {0, 1, PAGE_BYTES + 2}

\* The kernel maps, remaps or unmaps a page.
GdbMapPage ==
    /\ gdbLoop.pc = "idle"
    /\ \E p \in 1..MaxPage :
          \/ \E rights \in PageRights : gdbPt' = (p :> rights) @@ gdbPt
          \/ /\ p \in DOMAIN gdbPt
             /\ gdbPt' = [q \in DOMAIN gdbPt \ {p} |-> gdbPt[q]]
    /\ gdbLast' = [op |-> "map"]
    /\ UNCHANGED <<kdebug, gdbSave, dr6, gdbStub, gdbLoop>>
    /\ UNCHANGED GdbOthers

GdbMemOp(name, start_addr, len, r) ==
    /\ gdbLast' = [op |-> name, start_addr |-> start_addr, len |-> len,
                   ret |-> r.ret, accessed |-> r.accessed, bytes |-> r.bytes]
    /\ UNCHANGED <<kdebug, gdbSave, dr6, gdbStub, gdbLoop, gdbPt>>
    /\ UNCHANGED GdbOthers

GdbReadAddrs ==
    /\ InPump
    /\ \E start_addr \in MemStarts, len \in MemLens :
          GdbMemOp("read_addrs", start_addr, len, read_addrs(gdbPt, start_addr, len))

GdbWriteAddrs ==
    /\ InPump
    /\ \E start_addr \in MemStarts, len \in MemLens :
          GdbMemOp("write_addrs", start_addr, len, write_addrs(gdbPt, start_addr, len))

GdbMemNext ==
    \/ GdbMapPage
    \/ GdbEventLoopEnter
    \/ GdbReadAddrs
    \/ GdbWriteAddrs

GdbBreakNext ==
    \/ GdbEventLoopEnter
    \/ GdbAddHwBreakpoint
    \/ GdbAddSwBreakpoint
    \/ GdbAddHwWatchpoint
    \/ GdbRemoveHwBreakpoint
    \/ GdbRemoveSwBreakpoint
    \/ GdbRemoveHwWatchpoint

GdbLoopNext ==
    \/ GdbEventLoopEnter
    \/ GdbAddHwBreakpoint
    \/ GdbAddSwBreakpoint
    \/ GdbAddHwWatchpoint
    \/ GdbStep
    \/ GdbResume
    \/ GdbWriteRegisters
    \/ GdbPumpBreak
    \/ GdbDeferred

-----------------------------------------------------------------------------
(* Core control block, src/kernel/src/arch/aarch64/kcb.rs *)

Cores == 1..NumCores

\* Address of the KCB of a core and base of the stack allocated for it;
\* 0 is the null pointer.
KcbAddr(core) == core
StackBase(core) == 16 + core

\* AArch64Kcb::new(mem)
AArch64Kcb_new(core) ==
    [kernel_stack_top |-> 0, save_area |-> <<"None">>, mem |-> core,
     kernel_stack |-> <<"None">>]

\* try_per_core_mem(): the per-core memory of the KCB the register points to
try_per_core_mem(reg, kcb) ==
    IF reg # 0 THEN <<"Some", kcb.mem>> ELSE <<"None">>

\* get_kcb(): asserts that the register is not null
get_kcb(reg) == IF reg # 0 THEN <<"Ok", reg>> ELSE <<"panic">>

\* AArch64Kcb::get_save_area_ptr(): unwraps save_area
get_save_area_ptr(kcb) ==
    IF kcb.save_area[1] = "Some" THEN <<"Ok", kcb.save_area[2]>> ELSE <<"panic">>

\* AArch64Kcb::set_kernel_stack(stack)
set_kernel_stack(kcb, stack) ==
    [kcb EXCEPT !.kernel_stack_top = stack, !.kernel_stack = <<"Some", stack>>]

\* AArch64Kcb::set_save_area(save_area)
set_save_area(kcb, save_area) ==
    [kcb EXCEPT !.save_area = <<"Some", save_area>>]

KcbInit ==
    /\ tpidr = [c \in Cores |-> 0]
    /\ kcbs = [c \in Cores |-> AArch64Kcb_new(c)]
    /\ kcbPc = [c \in Cores |-> "install"]
    /\ kcbLast = [op |-> "none"]

\* install, first statement: initialize_tpidr()
KcbInitializeTpidr ==
    \E c \in Cores :
       /\ kcbPc[c] = "install"
       /\ tpidr' = [tpidr EXCEPT ![c] = KcbAddr(c)]
       /\ kcbPc' = [kcbPc EXCEPT ![c] = "alloc_stack"]
       /\ kcbLast' = [op |-> "initialize_tpidr", core |-> c]
       /\ UNCHANGED kcbs
       /\ UNCHANGED KcbOthers

\* install: OwnedStack::new(128 * BASE_PAGE_SIZE); the allocator finds the
\* core's memory through try_per_core_mem.
KcbAllocStack ==
    \E c \in Cores :
       /\ kcbPc[c] = "alloc_stack"
       /\ kcbPc' = [kcbPc EXCEPT ![c] = "set_kernel_stack"]
       /\ kcbLast' = [op |-> "OwnedStack_new", core |-> c,
                      ret |-> try_per_core_mem(tpidr[c], kcbs[c])]
       /\ UNCHANGED <<tpidr, kcbs>>
       /\ UNCHANGED KcbOthers

\* install: set_kernel_stack(stack)
KcbSetKernelStack ==
    \E c \in Cores :
       /\ kcbPc[c] = "set_kernel_stack"
       /\ kcbs' = [kcbs EXCEPT ![c] = set_kernel_stack(kcbs[c], StackBase(c))]
       /\ kcbPc' = [kcbPc EXCEPT ![c] = "set_save_area"]
       /\ kcbLast' = [op |-> "set_kernel_stack", core |-> c]
       /\ UNCHANGED tpidr
       /\ UNCHANGED KcbOthers

\* install, last statement: set_save_area(Box::pin(SaveArea::empty()))
KcbSetSaveArea ==
    \E c \in Cores :
       /\ kcbPc[c] = "set_save_area"
       /\ kcbs' = [kcbs EXCEPT ![c] = set_save_area(kcbs[c], "empty")]
       /\ kcbPc' = [kcbPc EXCEPT ![c] = "installed"]
       /\ kcbLast' = [op |-> "set_save_area", core |-> c]
       /\ UNCHANGED tpidr
       /\ UNCHANGED KcbOthers

\* Code running on a core (a trap taken at any point) asks for the per-core
\* memory.
KcbTryPerCoreMem ==
    \E c \in Cores :
       /\ kcbPc[c] # "panic"
       /\ kcbLast' = [op |-> "try_per_core_mem", core |-> c,
                      ret |-> try_per_core_mem(tpidr[c], kcbs[c])]
       /\ UNCHANGED <<tpidr, kcbs, kcbPc>>
       /\ UNCHANGED KcbOthers

\* Code running on a core asks for the save area: get_kcb().get_save_area_ptr()
KcbGetSaveAreaPtr ==
    \E c \in Cores :
       /\ kcbPc[c] # "panic"
       /\ \E r \in {IF get_kcb(tpidr[c])[1] = "panic" THEN <<"panic">>
                    ELSE get_save_area_ptr(kcbs[c])} :
             /\ kcbLast' = [op |-> "get_save_area_ptr", core |-> c, ret |-> r]
             /\ kcbPc' = [kcbPc EXCEPT ![c] = IF r[1] = "panic" THEN "panic" ELSE @]
       /\ UNCHANGED <<tpidr, kcbs>>
       /\ UNCHANGED KcbOthers

KcbNext ==
    \/ KcbInitializeTpidr
    \/ KcbAllocStack
    \/ KcbSetKernelStack
    \/ KcbSetSaveArea
    \/ KcbTryPerCoreMem
    \/ KcbGetSaveAreaPtr

-----------------------------------------------------------------------------
(* Kernel command line, src/kernel/src/cmdline.rs *)

\* A string slice is a sequence of pieces; a quote is a piece of its own, so
\* that "" is <<>> and the literal 'a b' is <<"'", "a b", "'">>.  The command
\* line is the sequence of the lexemes the lexer cuts it into; blanks between
\* them are skipped by the lexer and are not kept.

KernelBinaries == {<<"./kernel">>}
IdentWords == {<<"trace">>, <<"native">>, <<"controller">>, <<"client">>, <<"foo">>}

\* CmdToken::lexer: the token of a lexeme.  A #[token] wins over the Ident
\* regex on a lexeme both match.
lex(word) ==
    CASE word = <<"bsp-only">> -> "BspOnly"
      [] word = <<"test">> -> "Test"
      [] word = <<"log">> -> "Log"
      [] word = <<"mode">> -> "Mode"
      [] word = <<"init">> -> "InitBinary"
      [] word = <<"initargs">> -> "InitArgs"
      [] word = <<"appcmd">> -> "AppArgs"
      [] word = <<"=">> -> "KVSeparator"
      [] word \in KernelBinaries -> "KernelBinary"
      [] word \in IdentWords -> "Ident"
      [] Len(word) >= 2 /\ word[1] = "'" /\ word[Len(word)] = "'" -> "LiteralString"
      [] OTHER -> "Error"

\* impl From<&str> for Mode
Mode_from(s) ==
    CASE s = <<"native">> -> "Native"
      [] s = <<"controller">> -> "Controller"
      [] s = <<"client">> -> "Client"
      [] OTHER -> "Native"

\* impl Default for BootloaderArguments
BootloaderArguments_default ==
    [log_filter |-> <<"info">>, init_binary |-> <<"init">>, init_args |-> <<>>,
     app_args |-> <<>>, bsp_only |-> FALSE, test |-> <<"None">>, kgdb |-> FALSE,
     mode |-> "Native"]

\* from_str, arm CmdToken::Ident: [parsed_args, prev] after the arm
ident_arm(parsed_args, prev, slice) ==
    CASE prev = "Log" -> [p |-> [parsed_args EXCEPT !.log_filter = slice], prev |-> "Error"]
      [] prev = "Mode" -> [p |-> [parsed_args EXCEPT !.mode = Mode_from(slice)], prev |-> "Error"]
      [] prev = "InitBinary" -> [p |-> [parsed_args EXCEPT !.init_binary = slice], prev |-> "Error"]
      [] prev = "InitArgs" -> [p |-> [parsed_args EXCEPT !.init_args = slice], prev |-> "Error"]
      [] prev = "AppArgs" -> [p |-> [parsed_args EXCEPT !.app_args = slice], prev |-> "Error"]
      [] prev = "Test" -> [p |-> [parsed_args EXCEPT !.test = <<"Some", slice>>], prev |-> "Error"]
      [] OTHER -> [p |-> parsed_args, prev |-> prev]

\* from_str, arm CmdToken::LiteralString, with slice_no_quote = slice[1..len-1]
literal_arm(parsed_args, prev, slice) ==
    LET slice_no_quote == SubSeq(slice, 2, Len(slice) - 1)
    IN CASE prev = "Log" -> [p |-> [parsed_args EXCEPT !.log_filter = slice_no_quote], prev |-> "Error"]
         [] prev = "InitBinary" -> [p |-> [parsed_args EXCEPT !.init_binary = slice_no_quote], prev |-> "Error"]
         [] prev = "InitArgs" -> [p |-> [parsed_args EXCEPT !.init_args = slice_no_quote], prev |-> "Error"]
         [] prev = "AppArgs" -> [p |-> [parsed_args EXCEPT !.app_args = slice_no_quote], prev |-> "Error"]
         [] prev = "Test" -> [p |-> [parsed_args EXCEPT !.test = <<"Some", slice_no_quote>>], prev |-> "Error"]
         [] OTHER -> [p |-> parsed_args, prev |-> prev]

\* from_str: one iteration of the while loop on the lexeme slice
from_str_token(parsed_args, prev, slice) ==
    LET token == lex(slice)
    IN CASE token = "KernelBinary" -> [p |-> parsed_args, prev |-> prev]
         [] token = "BspOnly" -> [p |-> [parsed_args EXCEPT !.bsp_only = TRUE], prev |-> prev]
         [] token \in {"Log", "Mode", "Test", "InitBinary", "InitArgs", "AppArgs"} ->
               [p |-> parsed_args, prev |-> token]
         [] token = "Ident" -> ident_arm(parsed_args, prev, slice)
         [] token = "KVSeparator" -> [p |-> parsed_args, prev |-> prev]
         [] token = "LiteralString" -> literal_arm(parsed_args, prev, slice)
         [] OTHER -> [p |-> parsed_args, prev |-> prev]

RECURSIVE from_str_loop(_, _, _, _)
from_str_loop(args, i, parsed_args, prev) ==
    IF i > Len(args) THEN parsed_args
    ELSE LET r == from_str_token(parsed_args, prev, args[i])
         IN from_str_loop(args, i + 1, r.p, r.prev)

\* BootloaderArguments::from_str(args)
from_str(args) == from_str_loop(args, 1, BootloaderArguments_default, "Error")

\* Command lines the boot loader passes: the kernel binary followed by
\* segments.  A segment is a pair key=value, a key alone, or lexemes that
\* belong to no key.
CmdKeys ==
    {<<"log">>, <<"mode">>, <<"test">>, <<"init">>, <<"initargs">>, <<"appcmd">>}
CmdValues ==
    {<<"trace">>, <<"controller">>, <<"test">>,
     <<"'", "a b", "'">>, <<"'", "'">>, <<"'", "controller", "'">>}
CmdStray ==
    {<<<<"foo">>>>, <<<<"=">>>>, <<<<"foo">>, <<"=">>, <<"trace">>>>,
     <<<<"'", "a b", "'">>>>, <<<<"%">>>>}
Segments ==
    {[kind |-> "pair", words |-> <<k, <<"=">>, v>>] : k \in CmdKeys, v \in CmdValues}
    \cup {[kind |-> "key", words |-> <<k>>] : k \in CmdKeys \cup {<<"bsp-only">>}}
    \cup {[kind |-> "stray", words |-> w] : w \in CmdStray}

RECURSIVE Flatten(_)
Flatten(segs) ==
    IF segs = <<>> THEN <<>> ELSE Head(segs).words \o Flatten(Tail(segs))

CmdInit ==
    /\ cmdArgs = <<"None">>
    /\ cmdLast = [op |-> "none"]

\* The boot loader hands a command line to the kernel, once.
CmdBoot ==
    /\ cmdArgs = <<"None">>
    /\ \E n \in 0..MaxSegments : \E segs \in [1..n -> Segments] :
          cmdArgs' = <<"Some", segs>>
    /\ cmdLast' = [op |-> "boot"]
    /\ UNCHANGED CmdOthers

\* The kernel parses it: BootloaderArguments::from_str(args)
CmdFromStr ==
    /\ cmdArgs[1] = "Some"
    /\ cmdLast' = [op |-> "from_str", segs |-> cmdArgs[2],
                   parsed |-> from_str(<<<<"./kernel">>>> \o Flatten(cmdArgs[2]))]
    /\ UNCHANGED cmdArgs
    /\ UNCHANGED CmdOthers

CmdNext ==
    \/ CmdBoot
    \/ CmdFromStr

-----------------------------------------------------------------------------
(* Boot handoff, src/bootloader/src/main.rs *)

\* Calls into the firmware: boot-services allocations, memory-map queries,
\* protocol lookups and console output of the logger.
FirmwareEvents == {"alloc", "memory_map", "protocol", "console"}

\* round_up!(num, s)
round_up(num, s) == ((num + s - 1) \div s) * s

\* mem::size_of::<MemoryDescriptor>()
SIZE_OF_DESCRIPTOR == 40

\* estimate_memory_map_size(st) for a firmware map of descs entries of
\* entry_size bytes: <<sz, number of descriptors planned for>>
estimate_memory_map_size(descs, entry_size) ==
    LET sz == round_up(descs * entry_size + 32 * entry_size, PAGE_BYTES)
    IN <<sz, sz \div SIZE_OF_DESCRIPTOR>>

\* Variant of mm_iter_capacity for a vector created without capacity.
mm_iter_unreserved(no_descs) == 0

\* kernel_args.mm_iter = Vec::with_capacity(no_descs)
mm_iter_capacity(no_descs) == no_descs

\* Vec::extend of an empty vector by n elements allocates when they exceed
\* the capacity.
extend_allocates(capacity, n) == n > capacity

\* Firmware memory maps: entries at the time of the estimate, bytes per entry
\* (never less than the descriptor type), and entries added until the exit.
MapDescs == {4, 50, 90}
EntrySizes == {SIZE_OF_DESCRIPTOR, 48}
MapGrowth == {0, 2, 100}

BootInit ==
    /\ bootPc = "start"
    /\ bootMm = [mm_size |-> 0, capacity |-> 0, entry_size |-> 0, descs |-> 0,
                 frame_buffer |-> "None"]
    /\ bootTrace = <<>>

BootStep(pc, next, events) ==
    /\ bootPc = pc
    /\ bootPc' = next
    /\ bootTrace' = bootTrace \o events

\* uefi_services::init, the first log lines and check_revision
BootStart ==
    /\ \E revision_ok \in BOOLEAN :
          BootStep("start", IF revision_ok THEN "load_modules" ELSE "panic",
                   <<"console">>)
    /\ UNCHANGED bootMm
    /\ UNCHANGED BootOthers

\* load_modules_on_all_sfs and the search for kernel and cmdline.in
BootLoadModules ==
    /\ \E found \in BOOLEAN :
          BootStep("load_modules", IF found THEN "load_kernel" ELSE "panic",
                   <<"protocol", "alloc">>)
    /\ UNCHANGED bootMm
    /\ UNCHANGED BootOthers

\* ElfBinary::new(kernel_blob) and binary.load(&mut kernel)
BootLoadKernel ==
    /\ \E loaded \in BOOLEAN :
          BootStep("load_kernel", IF loaded THEN "alloc_stack" ELSE "panic",
                   <<"console", "alloc">>)
    /\ UNCHANGED bootMm
    /\ UNCHANGED BootOthers

\* the init stack and the page of the kernel arguments
BootAllocStack ==
    /\ BootStep("alloc_stack", "map_physical_memory", <<"alloc", "console", "alloc">>)
    /\ UNCHANGED bootMm
    /\ UNCHANGED BootOthers

\* arch::map_physical_memory and the cpu feature setup
BootMapPhysicalMemory ==
    /\ BootStep("map_physical_memory", "estimate", <<"memory_map", "alloc">>)
    /\ UNCHANGED bootMm
    /\ UNCHANGED BootOthers

\* estimate_memory_map_size, the buffer of the memory map, and
\* kernel_args.mm_iter = Vec::with_capacity(no_descs)
BootEstimate ==
    /\ \E descs \in MapDescs, entry_size \in EntrySizes :
          \E e \in {estimate_memory_map_size(descs, entry_size)} :
             bootMm' = [mm_size |-> e[1], capacity |-> mm_iter_capacity(e[2]),
                        entry_size |-> entry_size, descs |-> descs,
                        frame_buffer |-> "None"]
    /\ BootStep("estimate", "fill_args", <<"memory_map", "alloc", "alloc">>)
    /\ UNCHANGED BootOthers

\* the fields of KernelArgs, the lookup of the graphics output protocol and
\* the log lines before the exit
BootFillArgs ==
    /\ BootStep("fill_args", "exit_boot_services", <<"protocol", "console">>)
    /\ \E gop \in {"Ok", "Err"} :
          bootMm' = [bootMm EXCEPT !.frame_buffer = IF gop = "Ok" THEN "Some" ELSE "None"]
    /\ UNCHANGED BootOthers

\* st.exit_boot_services(handle, mm_slice).expect(..): the firmware writes its
\* current map into the buffer, or fails when it does not fit
BootExitBootServices ==
    /\ \E growth \in MapGrowth :
          \E descs \in {bootMm.descs + growth} :
             IF descs * bootMm.entry_size <= bootMm.mm_size
             THEN /\ BootStep("exit_boot_services", "extend_mm_iter", <<"exit_boot_services">>)
                  /\ bootMm' = [bootMm EXCEPT !.descs = descs]
             ELSE /\ BootStep("exit_boot_services", "panic", <<"console">>)
                  /\ UNCHANGED bootMm
    /\ UNCHANGED BootOthers

\* kernel_args.mm_iter.extend(mmiter)
BootExtendMmIter ==
    /\ BootStep("extend_mm_iter", "disable_interrupts",
                IF extend_allocates(bootMm.capacity, bootMm.descs)
                THEN <<"alloc">> ELSE <<>>)
    /\ UNCHANGED bootMm
    /\ UNCHANGED BootOthers

\* arch::cpu::disable_interrupts()
BootDisableInterrupts ==
    /\ BootStep("disable_interrupts", "set_translation_table", <<"disable_interrupts">>)
    /\ UNCHANGED bootMm
    /\ UNCHANGED BootOthers

\* arch::cpu::set_translation_table(kernel.vspace.roottable())
BootSetTranslationTable ==
    /\ BootStep("set_translation_table", "jump_to_kernel", <<"set_translation_table">>)
    /\ UNCHANGED bootMm
    /\ UNCHANGED BootOthers

\* arch::cpu::jump_to_kernel(stack, entry, args)
BootJumpToKernel ==
    /\ BootStep("jump_to_kernel", "kernel", <<"jump_to_kernel">>)
    /\ UNCHANGED bootMm
    /\ UNCHANGED BootOthers

BootNext ==
    \/ BootStart
    \/ BootLoadModules
    \/ BootLoadKernel
    \/ BootAllocStack
    \/ BootMapPhysicalMemory
    \/ BootEstimate
    \/ BootFillArgs
    \/ BootExitBootServices
    \/ BootExtendMmIter
    \/ BootDisableInterrupts
    \/ BootSetTranslationTable
    \/ BootJumpToKernel

-----------------------------------------------------------------------------
(* Unmap benchmark, src/usr/init/src/vmops/unmap.rs *)

\* The threads bench() spawns, one per core; thread ids start at 1 and the
\* thread with id 1 is the master.
BenchThreads == 1..BenchCores
Workers == BenchThreads \ {1}

\* The builds of the benchmark: the features smoke and latency.
BenchBuilds == [smoke : BOOLEAN, latency : BOOLEAN]

\* bench_duration_secs
bench_duration_secs(cfg) ==
    IF cfg.smoke /\ ~cfg.latency THEN 1
    ELSE IF cfg.smoke /\ cfg.latency THEN 6
    ELSE 10

\* Variant of accessed_needed that waits for one message fewer.
accessed_needed_short(cores) == cores - 2

\* The value count starts from in each round.
accessed_needed(cores) == cores - 1

\* tx_channels[xtid].push(cmd) for xtid in 2..=cores
push_all(q, cmd) == [t \in BenchThreads |-> IF t \in Workers THEN Append(q[t], cmd) ELSE q[t]]

BenchInit ==
    /\ benchCfg = [smoke |-> FALSE, latency |-> FALSE]
    /\ barrier = 0
    /\ bChan = {}
    /\ bQueue = [t \in BenchThreads |-> <<>>]
    /\ bPc = [t \in BenchThreads |-> "unborn"]
    /\ bIter = [t \in BenchThreads |-> 0]
    /\ bCount = 0
    /\ bRounds = 0
    /\ bLatency = 0
    /\ bMapped = FALSE
    /\ bAcc = {}
    /\ bFault = FALSE
    /\ bJoined = 0

\* bench(): the barrier is set to the number of threads and the threads are
\* spawned, one on each core.
BenchSpawn ==
    /\ \A t \in BenchThreads : bPc[t] = "unborn"
    /\ benchCfg' \in BenchBuilds
    /\ barrier' = BenchCores
    /\ bPc' = [t \in BenchThreads |-> "register"]
    /\ UNCHANGED <<bChan, bQueue, bIter, bCount, bRounds, bLatency, bMapped, bAcc, bFault,
                   bJoined>>
    /\ UNCHANGED BenchOthers

\* bench(): Environment::thread().join(thandle), handle after handle.
BenchJoin ==
    /\ bJoined < BenchCores
    /\ bPc[bJoined + 1] = "done"
    /\ bJoined' = bJoined + 1
    /\ UNCHANGED <<benchCfg, barrier, bChan, bQueue, bPc, bIter, bCount, bRounds, bLatency,
                   bMapped, bAcc, bFault>>
    /\ UNCHANGED BenchOthers

\* TX_CHANNELS.lock()[thread_id].replace(tx)
BenchRegister(t) ==
    /\ bPc[t] = "register"
    /\ bChan' = bChan \cup {t}
    /\ bPc' = [bPc EXCEPT ![t] = "barrier_sub"]
    /\ UNCHANGED <<benchCfg, barrier, bQueue, bIter, bCount, bRounds, bLatency, bMapped,
                   bAcc, bFault, bJoined>>
    /\ UNCHANGED BenchOthers

\* POOR_MANS_BARRIER.fetch_sub(1)
BenchBarrierSub(t) ==
    /\ bPc[t] = "barrier_sub"
    /\ barrier' = barrier - 1
    /\ bPc' = [bPc EXCEPT ![t] = "barrier_wait"]
    /\ UNCHANGED <<benchCfg, bChan, bQueue, bIter, bCount, bRounds, bLatency, bMapped,
                   bAcc, bFault, bJoined>>
    /\ UNCHANGED BenchOthers

\* A load of the barrier that reads 0 ends the wait; the thread then clones
\* the master's sender, TX_CHANNELS.lock()[1].as_ref().unwrap().
BenchBarrierPass(t) ==
    /\ bPc[t] = "barrier_wait"
    /\ barrier = 0
    /\ bPc' = [bPc EXCEPT ![t] = IF 1 \in bChan THEN "outer" ELSE "panic"]
    /\ UNCHANGED <<benchCfg, barrier, bChan, bQueue, bIter, bCount, bRounds, bLatency,
                   bMapped, bAcc, bFault, bJoined>>
    /\ UNCHANGED BenchOthers

\* The head of 'outer and the first test of the inner while, which follows
\* `start = now()` directly and passes: the master goes on to a round, a
\* worker into its command loop.
BenchOuter(t) ==
    /\ bPc[t] = "outer"
    /\ bPc' = [bPc EXCEPT ![t] =
                  IF bIter[t] <= bench_duration_secs(benchCfg)
                  THEN IF t = 1 THEN "map" ELSE "wait"
                  ELSE "finish"]
    /\ bRounds' = IF t = 1 THEN 0 ELSE bRounds
    /\ UNCHANGED <<benchCfg, barrier, bChan, bQueue, bIter, bCount, bLatency, bMapped,
                   bAcc, bFault, bJoined>>
    /\ UNCHANGED BenchOthers

\* Master: VSpace::map_frame(frame_id, base)
BenchMap ==
    /\ bPc[1] = "map"
    /\ bMapped' = TRUE
    /\ bAcc' = {}
    /\ bPc' = [bPc EXCEPT ![1] = "signal"]
    /\ UNCHANGED <<benchCfg, barrier, bChan, bQueue, bIter, bCount, bRounds, bLatency,
                   bFault, bJoined>>
    /\ UNCHANGED BenchOthers

\* Master: Cmd::Access to every worker, then its own read of the page; count
\* is set for the collection that follows.
BenchSignal ==
    /\ bPc[1] = "signal"
    /\ IF Workers \subseteq bChan
       THEN /\ bQueue' = push_all(bQueue, "Access")
            /\ bFault' = (bFault \/ ~bMapped)
            /\ bCount' = accessed_needed(BenchCores)
            /\ bPc' = [bPc EXCEPT ![1] = "collect"]
       ELSE /\ bPc' = [bPc EXCEPT ![1] = "panic"]
            /\ UNCHANGED <<bQueue, bFault, bCount>>
    /\ UNCHANGED <<benchCfg, barrier, bChan, bIter, bRounds, bLatency, bMapped, bAcc,
                   bJoined>>
    /\ UNCHANGED BenchOthers

\* Master: one pass of `while count > 0` that pops a message, or the end of
\* that loop.
BenchCollect ==
    /\ bPc[1] = "collect"
    /\ IF bCount > 0
       THEN /\ bQueue[1] # <<>>
            /\ bQueue' = [bQueue EXCEPT ![1] = Tail(@)]
            /\ IF Head(bQueue[1]) = "Accessed"
               THEN bCount' = bCount - 1 /\ UNCHANGED bPc
               ELSE bPc' = [bPc EXCEPT ![1] = "panic"] /\ UNCHANGED bCount
       ELSE /\ bPc' = [bPc EXCEPT ![1] = "unmap"]
            /\ UNCHANGED <<bQueue, bCount>>
    /\ UNCHANGED <<benchCfg, barrier, bChan, bIter, bRounds, bLatency, bMapped, bAcc,
                   bFault, bJoined>>
    /\ UNCHANGED BenchOthers

\* Master: VSpace::unmap(base, BASE_PAGE_SIZE)
BenchUnmap ==
    /\ bPc[1] = "unmap"
    /\ bMapped' = FALSE
    /\ bPc' = [bPc EXCEPT ![1] = "round_end"]
    /\ UNCHANGED <<benchCfg, barrier, bChan, bQueue, bIter, bCount, bRounds, bLatency,
                   bAcc, bFault, bJoined>>
    /\ UNCHANGED BenchOthers

\* Master: the end of a round.  In the latency build a measurement is kept
\* once iteration > 4, and `break 'outer` follows the last one.  Otherwise
\* the inner while is tested again: the second is over (at the latest after
\* MaxRounds rounds) or another round starts.
BenchRoundEnd ==
    /\ bPc[1] = "round_end"
    /\ IF benchCfg.latency /\ bIter[1] > 4 /\ bLatency + 1 = LATENCY_MEASUREMENTS
       THEN /\ bLatency' = bLatency + 1
            /\ bPc' = [bPc EXCEPT ![1] = "finish"]
            /\ UNCHANGED bRounds
       ELSE /\ bLatency' = IF benchCfg.latency /\ bIter[1] > 4 THEN bLatency + 1
                           ELSE bLatency
            /\ bRounds' = bRounds + 1
            /\ \E over \in BOOLEAN :
                  /\ bRounds + 1 = MaxRounds => over
                  /\ bPc' = [bPc EXCEPT ![1] = IF over THEN "exit_signal" ELSE "map"]
    /\ UNCHANGED <<benchCfg, barrier, bChan, bQueue, bIter, bCount, bMapped, bAcc, bFault,
                   bJoined>>
    /\ UNCHANGED BenchOthers

\* After the inner while: Cmd::Exit to every worker, iteration += 1.
BenchExitSignal ==
    /\ bPc[1] = "exit_signal"
    /\ bQueue' = push_all(bQueue, "Exit")
    /\ bIter' = [bIter EXCEPT ![1] = @ + 1]
    /\ bPc' = [bPc EXCEPT ![1] = "outer"]
    /\ UNCHANGED <<benchCfg, barrier, bChan, bCount, bRounds, bLatency, bMapped, bAcc,
                   bFault, bJoined>>
    /\ UNCHANGED BenchOthers

\* Worker: rx_cmd.pop() returns a command.
BenchPop(t) ==
    /\ t \in Workers
    /\ bPc[t] = "wait"
    /\ bQueue[t] # <<>>
    /\ bQueue' = [bQueue EXCEPT ![t] = Tail(@)]
    /\ CASE Head(bQueue[t]) = "Exit" ->
               /\ bIter' = [bIter EXCEPT ![t] = @ + 1]
               /\ bPc' = [bPc EXCEPT ![t] = "outer"]
         [] Head(bQueue[t]) = "Access" ->
               /\ bPc' = [bPc EXCEPT ![t] = "access"]
               /\ UNCHANGED bIter
         [] OTHER ->
               /\ bPc' = [bPc EXCEPT ![t] = "panic"]
               /\ UNCHANGED bIter
    /\ UNCHANGED <<benchCfg, barrier, bChan, bCount, bRounds, bLatency, bMapped, bAcc,
                   bFault, bJoined>>
    /\ UNCHANGED BenchOthers

\* Worker: the read of the page, then tx_master.push(Cmd::Accessed).
BenchAccess(t) ==
    /\ t \in Workers
    /\ bPc[t] = "access"
    /\ bFault' = (bFault \/ ~bMapped)
    /\ bAcc' = bAcc \cup {t}
    /\ bQueue' = [bQueue EXCEPT ![1] = Append(@, "Accessed")]
    /\ bPc' = [bPc EXCEPT ![t] = "wait"]
    /\ UNCHANGED <<benchCfg, barrier, bChan, bIter, bCount, bRounds, bLatency, bMapped,
                   bJoined>>
    /\ UNCHANGED BenchOthers

\* POOR_MANS_BARRIER.fetch_add(1) and the return from unmap_bencher.
BenchFinish(t) ==
    /\ bPc[t] = "finish"
    /\ barrier' = barrier + 1
    /\ bPc' = [bPc EXCEPT ![t] = "done"]
    /\ UNCHANGED <<benchCfg, bChan, bQueue, bIter, bCount, bRounds, bLatency, bMapped,
                   bAcc, bFault, bJoined>>
    /\ UNCHANGED BenchOthers

BenchMaster ==
    \/ BenchMap
    \/ BenchSignal
    \/ BenchCollect
    \/ BenchUnmap
    \/ BenchRoundEnd
    \/ BenchExitSignal

BenchThread(t) ==
    \/ BenchRegister(t)
    \/ BenchBarrierSub(t)
    \/ BenchBarrierPass(t)
    \/ BenchOuter(t)
    \/ BenchPop(t)
    \/ BenchAccess(t)
    \/ BenchFinish(t)

BenchNext ==
    \/ BenchSpawn
    \/ BenchJoin
    \/ BenchMaster
    \/ \E t \in BenchThreads : BenchThread(t)

-----------------------------------------------------------------------------
(* Specifications: one per component, over the same state *)

Init == VsInit /\ CtlInit /\ ClInit /\ IrqInit /\ GdbInit /\ KcbInit /\ CmdInit /\ BootInit
        /\ BenchInit

SpecVSpace == Init /\ [][VsNext]_vars

SpecVsFirst == Init /\ [][VsFirstNext]_vars

SpecVsPhys == Init /\ [][VsPhysNext]_vars

SpecController == Init /\ [][CtlNext]_vars

\* The controller loop never stops on its own: its steps are taken whenever
\* they stay possible.
SpecRun == Init /\ [][RunNext]_vars /\ WF_vars(RunLoop)

SpecClient == Init /\ [][ClNext]_vars

SpecIrq == Init /\ [][IrqNext]_vars

SpecIrqLock == Init /\ [][IrqLockNext]_vars

SpecIrqSmp == Init /\ [][SmpNext]_vars

SpecGdbBreak == Init /\ [][GdbBreakNext]_vars

SpecGdbLoop == Init /\ [][GdbLoopNext]_vars

SpecGdbMem == Init /\ [][GdbMemNext]_vars

SpecKcb == Init /\ [][KcbNext]_vars

SpecCmdline == Init /\ [][CmdNext]_vars

SpecBoot == Init /\ [][BootNext]_vars

\* The benchmark's threads run on cores of their own and bench() runs its
\* scheduler until no thread is left: each of them keeps taking steps.
SpecBench ==
    /\ Init
    /\ [][BenchNext]_vars
    /\ WF_vars(BenchSpawn \/ BenchJoin)
    /\ \A t \in BenchThreads : WF_vars(BenchThread(t) \/ (t = 1 /\ BenchMaster))

-----------------------------------------------------------------------------
(* Claims about the VSpace builder *)

VsMem == [mem |-> mem, next |-> nextTable]

\* C1: on a freshly created VSpace, after map_generic(vbase, (pbase, size),
\* rights) with size > 0 returned, every page vbase + k with 0 <= k < size
\* resolves to pbase + k, and the byte offset inside the page is preserved.
C1_MapThenResolve ==
    (Len(vsCalls) = 1 /\ vsCalls[1].status = "ok" /\ vsCalls[1].size > 0) =>
        \A k \in 0..(vsCalls[1].size - 1) : \A off \in Offsets :
            resolve_addr(VsMem, "invalid", vsCalls[1].vbase + k, off)
                = <<"Some", vsCalls[1].pbase + k, off>>

\* A first call that used all three page sizes returned.
C1_Witness ==
    /\ Len(vsCalls) = 1
    /\ vsCalls[1].status = "ok"
    /\ vsCalls[1].size = HUGE_PAGE_SIZE + LARGE_PAGE_SIZE + BASE_PAGE_SIZE
    /\ resolve_addr(VsMem, "invalid", vsCalls[1].vbase + 1, 1)
           = <<"Some", vsCalls[1].pbase + 1, 1>>
    /\ resolve_addr(VsMem, "invalid", vsCalls[1].vbase + HUGE_PAGE_SIZE + LARGE_PAGE_SIZE, 0)
           = <<"Some", vsCalls[1].pbase + HUGE_PAGE_SIZE + LARGE_PAGE_SIZE, 0>>

\* C2: whenever map_generic walks through an L1 or L2 entry that holds a
\* block descriptor, the call aborts; it never returns normally.
C2_BlockDescentAborts ==
    \A i \in DOMAIN vsCalls :
        vsCalls[i].viaBlock => vsCalls[i].status = "panic"

SameRegion(a, b) == a.vbase = b.vbase /\ a.pbase = b.pbase /\ a.size = b.size

\* C3: map_generic never overwrites a valid slot, and a call on a region that
\* an earlier call mapped successfully aborts at its first leaf, leaving the
\* tables as they were (never a silent no-op).
C3_NoRemap ==
    [][ /\ \A k \in DOMAIN mem :
              is_valid(mem[k]) => (k \in DOMAIN mem' /\ mem'[k] = mem[k])
        /\ (Len(vsCalls') = Len(vsCalls) + 1
            /\ \E i \in DOMAIN vsCalls :
                  vsCalls[i].status = "ok" /\ SameRegion(vsCalls[i], vsCalls'[Len(vsCalls')]))
           => (vsStatus' = "panic" /\ mem' = mem /\ nextTable' = nextTable) ]_vars

\* A region was mapped, then mapped again with different rights, and the
\* second call aborted.
C3_Witness ==
    /\ Len(vsCalls) = 2
    /\ SameRegion(vsCalls[1], vsCalls[2])
    /\ vsCalls[1].rights # vsCalls[2].rights
    /\ vsCalls[1].status = "ok"
    /\ vsCalls[2].status = "panic"

-----------------------------------------------------------------------------
(* Claims about request_core *)

FreeIn(threads) == {i \in DOMAIN threads : ~threads[i].in_use}

\* C4: a successful request_core returns the id of the lowest-index free
\* hardware thread of the DCM-selected machine and marks exactly that entry
\* in use; no gtid is ever returned twice.
C4_FirstFreeOnce ==
    /\ \A g \in AllGtids : rcReturned[g] <= 1
    /\ (rcLast.status = "returned" /\ rcLast.reply[1] = "Ok") =>
          LET mid == rcLast.env.mids[1]
              free == FreeIn(rcLast.before[mid])
          IN /\ free # {}
             /\ rcLast.reply[2] = rcLast.before[mid][Min(free)].id
             /\ hwThreads = [rcLast.before EXCEPT ![mid][Min(free)].in_use = TRUE]

\* Two requests were served on one machine; the second got the second thread.
C4_Witness ==
    /\ rcLast.status = "returned"
    /\ rcLast.reply[1] = "Ok"
    /\ rcLast.before[rcLast.mid][1].in_use
    /\ \E g \in AllGtids : g # rcLast.reply[2] /\ rcReturned[g] = 1

RcFailure(l) ==
    \/ ~l.req.decodable
    \/ Len(l.env.mids) = 0
    \/ FreeIn(l.before[l.env.mids[1]]) = {}
    \/ l.env.alloc # "Ok"
    \/ (l.req.new_pid /\ l.env.add # "Ok")

\* C5: for every failure cause the handler encodes an error into the reply
\* and returns Ok(state); it never aborts the controller.
C5_FailuresReplyError ==
    /\ ctlStatus = "running"
    /\ (rcLast.status # "none" /\ RcFailure(rcLast)) =>
          (rcLast.status = "returned" /\ rcLast.reply[1] = "Err")

-----------------------------------------------------------------------------
(* Claims about the RPC client *)

C7_ConnectAdoptsId ==
    (clLast.op = "connect" /\ clLast.received
     /\ clLast.net.resp.req_id = clLast.before.req_id)
    => /\ clLast.ret = <<"Ok", clLast.net.resp.client_id>>
       /\ client.client_id = clLast.net.resp.client_id

Sent(i) == clLog[i].sent[2]
WasSent(i) == clLog[i].sent[1] = "Some"

\* C8: over any sequence of calls of one client the req_id of the requests
\* starts at 0 and increases by one per call, so no two calls carry the same
\* req_id.
C8_ReqIdPerCall ==
    \A i \in DOMAIN clLog : WasSent(i) => Sent(i).req_id = i - 1

\* C9: when the transport fails in send_msg or recv_msg, call returns the
\* transport error to its caller; the client is not aborted.
C9_TransportErrorReturned ==
    (clLast.op \in {"call", "connect"} /\ clLast.sent[1] = "Some"
     /\ (clLast.net.send # "Ok" \/ clLast.net.recv # "Ok"))
    => (clLast.callret[1] = "Err" /\ clStatus # "panic")

-----------------------------------------------------------------------------
(* Claims about exception dispatch *)

\* C10: when an exception arrives while the current process has upcalls
\* enabled, the dispatcher copies the current save area into the process's
\* enabled-state slot, sets the vcpu to upcalls-disabled and resumes at the
\* process's upcall entry point with (vector, error_code) as arguments.
C10_UpcallDelivery ==
    [][ ( /\ irqStatus = "running"
          /\ irqLast'.op = "exception"
          /\ proc.present /\ proc.has_vcpu
          /\ ~proc.vcpu_ctl.is_disabled
          /\ ~(proc.vcpu_ctl.pc_disabled[1] <= irqLast'.a.rip
               /\ irqLast'.a.rip <= proc.vcpu_ctl.pc_disabled[2]) )
        => ( /\ csa' = [rsp |-> irqLast'.a.rsp, rip |-> irqLast'.a.rip,
                        rflags |-> irqLast'.a.rflags, rax |-> irqLast'.regs]
             /\ proc'.vcpu_ctl.enabled_state = csa'
             /\ proc'.vcpu_ctl.is_disabled
             /\ irqLast'.resumer = [kind |-> "upcall", entry |-> proc.upcall_entry,
                                    args |-> <<irqLast'.a.vector, irqLast'.a.exception>>]
             /\ irqStatus' = "running" ) ]_vars

\* A page fault with error code 2 was delivered as an upcall.
C10_Witness ==
    /\ irqLast.op = "exception"
    /\ irqLast.a.vector = 14 /\ irqLast.a.exception = 2
    /\ irqLast.resumer.kind = "upcall"
    /\ proc.vcpu_ctl.enabled_state.rip = irqLast.a.rip
    /\ proc.vcpu_ctl.is_disabled

\* C11: when the dispatcher is entered with vector 0x0E, 0x0D or 0x03 and no
\* handler is registered for the vector, the built-in diagnostic runs and the
\* platform is shut down instead of resuming anything, whether or not the
\* core has a current process.
C11_DiagnosticShutdown ==
    (irqLast.op = "exception" /\ irqLast.a.vector \in {3, 13, 14}
     /\ irqLast.a.vector \notin irqHandlers)
    => (irqStatus = "shutdown" /\ irqLast.resumer.kind = "none")

-----------------------------------------------------------------------------
(* Claims about the remote debugger target *)

\* C12: when event_loop returns, the TF bit of the saved RFLAGS is set if and
\* only if the debugger's last resume request was single-step; after a
\* continue request TF is clear.
C12_TrapFlagFollowsRequest ==
    (gdbLast.op = "event_loop" /\ gdbLast.status = "returned")
    => /\ has_tf(gdbSave.rflags) <=> gdbLast.requested = "step"
       /\ gdbLast.requested = "resume" => ~has_tf(gdbSave.rflags)

\* A session stepped, then continued: TF was set and is clear again.
C12_Witness ==
    /\ gdbLast.op = "event_loop" /\ gdbLast.status = "returned"
    /\ gdbLast.requested = "resume"
    /\ ~has_tf(gdbSave.rflags)
    /\ gdbStub = "DeferredStopReason"
    /\ kdebug.hw_break_points[1] # NoBreak

Occupied(slots) == {i \in BreakSlots : slots[i] # NoBreak}

\* C13: after any sequence of add/remove operations for hardware
\* breakpoints, software breakpoints and watchpoints, slot i of the
\* break-state table is occupied iff bit i of enabled_bps is set, and an add
\* issued when all four slots are occupied returns false and changes nothing.
C13_SlotsMatchEnabledBits ==
    /\ \A i \in BreakSlots :
          (kdebug.hw_break_points[i] # NoBreak) <=> get_bit(gdbSave.enabled_bps, i - 1)
    /\ gdbSave.enabled_bps \in 0..15
    /\ (gdbLast.op = "add" /\ Occupied(gdbLast.before.hw_break_points) = BreakSlots)
       => /\ gdbLast.ret = <<"Ok", FALSE>>
          /\ kdebug.hw_break_points = gdbLast.before.hw_break_points
          /\ gdbSave.enabled_bps = gdbLast.before.enabled_bps

\* An add was refused with all four slots occupied, after a removal had
\* freed and an add refilled a slot in the middle.
C13_Witness ==
    /\ gdbLast.op = "add"
    /\ gdbLast.ret = <<"Ok", FALSE>>
    /\ gdbSave.enabled_bps = 15
    /\ kdebug.hw_break_points[2][2].ty = "Watchpoint"
    /\ kdebug.hw_break_points[1][2].req = "Software"
    /\ kdebug.hw_break_points[3][2].req = "Software"

SlotStop(entry) ==
    IF entry[2].ty = "Watchpoint" THEN StopReason("Watch", entry[2].kind, entry[2].va)
    ELSE IF entry[2].req = "Hardware" THEN StopReason("HwBreak", "-", 0)
    ELSE StopReason("SwBreak", "-", 0)

\* C15: determine_stop_reason maps a serial-line interrupt to signal 5; for a
\* debug interrupt with Bn set (the lowest n, should several be set) it
\* reports the kind stored in slot n: hardware break, software break, or
\* watchpoint with its access kind and address; with only BS set it reports
\* single-step completion; and none of B0..B3/BS is set in the value written
\* back to the condition register.
C15_StopReason ==
    gdbLast.op = "determine_stop_reason" =>
        LET hits == {n \in 0..3 : Dr6B(n) \in gdbLast.dr6}
        IN /\ gdbLast.reason = "ConnectionInterrupt"
                => gdbLast.stop = StopReason("Signal5", "-", 0)
           /\ (gdbLast.reason = "DebugInterrupt" /\ hits # {}
               /\ kdebug.hw_break_points[Min(hits) + 1] # NoBreak)
                => gdbLast.stop = SlotStop(kdebug.hw_break_points[Min(hits) + 1])
           /\ (gdbLast.reason = "DebugInterrupt" /\ gdbLast.dr6 \ {"RTM"} = {"BS"})
                => gdbLast.stop = StopReason("DoneStep", "-", 0)
           /\ gdbLast.reason = "DebugInterrupt"
                => dr6 \cap {"B0", "B1", "B2", "B3", "BS"} = {}

\* The third slot holds a write watchpoint and B2 alone was set.
C15_Witness ==
    /\ gdbLast.op = "determine_stop_reason"
    /\ gdbLast.reason = "DebugInterrupt"
    /\ gdbLast.dr6 = {"B2"}
    /\ gdbLast.stop = StopReason("Watch", "Write", 8192)
    /\ kdebug.hw_break_points[1][2].req = "Software"

RequestPages(l) ==
    IF l.len = 0 THEN {}
    ELSE (l.start_addr \div PAGE_BYTES)..((l.start_addr + l.len - 1) \div PAGE_BYTES)

NoWrite(p) == p \notin DOMAIN gdbPt \/ gdbPt[p].x \/ ~gdbPt[p].w
NoRead(p) == p \notin DOMAIN gdbPt \/ ~gdbPt[p].r

\* C14: write_addrs never stores a byte into a page that is unmapped,
\* executable or not writable, read_addrs never loads a byte from a page that
\* is unmapped or not readable, and whenever the request touches such a page
\* the operation returns the non-fatal target error.
C14_NoAccessToRefusedPages ==
    /\ gdbLast.op = "write_addrs" =>
          /\ \A p \in gdbLast.accessed : ~NoWrite(p)
          /\ (\E p \in RequestPages(gdbLast) : NoWrite(p))
                => gdbLast.ret = <<"Err", "NonFatal">>
    /\ gdbLast.op = "read_addrs" =>
          /\ \A p \in gdbLast.accessed : ~NoRead(p)
          /\ (\E p \in RequestPages(gdbLast) : NoRead(p))
                => gdbLast.ret = <<"Err", "NonFatal">>

\* A write that starts in a writable page and runs over an executable page
\* into a third one was refused after the bytes of the first page.
C14_Witness ==
    /\ gdbLast.op = "write_addrs"
    /\ gdbLast.start_addr = 2 * PAGE_BYTES - 1
    /\ gdbLast.len = PAGE_BYTES + 2
    /\ gdbLast.accessed = {1}
    /\ gdbLast.ret = <<"Err", "NonFatal">>
    /\ 2 \in DOMAIN gdbPt /\ gdbPt[2].x /\ gdbPt[2].w

-----------------------------------------------------------------------------
(* Claims about the core control block *)

\* C16: at every point during and after install, if the per-core register
\* TPIDR_EL1 of a core is not null, the KCB it points to has kernel_stack_top
\* set and save_area present.
C16_RegisterSetLast ==
    \A c \in Cores :
       tpidr[c] # 0 => /\ kcbs[c].kernel_stack_top # 0
                       /\ kcbs[c].save_area[1] = "Some"

-----------------------------------------------------------------------------
(* Claims about the kernel command line *)

\* The value of a pair as the grammar reads it: a literal without its quotes,
\* a bare identifier as it is.
ValueOf(v) == IF v[1] = "'" THEN SubSeq(v, 2, Len(v) - 1) ELSE v

\* The result of applying one pair key=value to a BootloaderArguments.
WithPair(b, k, v) ==
    CASE k = <<"log">> -> [b EXCEPT !.log_filter = ValueOf(v)]
      [] k = <<"init">> -> [b EXCEPT !.init_binary = ValueOf(v)]
      [] k = <<"initargs">> -> [b EXCEPT !.init_args = ValueOf(v)]
      [] k = <<"appcmd">> -> [b EXCEPT !.app_args = ValueOf(v)]
      [] k = <<"test">> -> [b EXCEPT !.test = <<"Some", ValueOf(v)>>]
      [] k = <<"mode">> -> [b EXCEPT !.mode = Mode_from(ValueOf(v))]

RECURSIVE WithPairs(_, _)
WithPairs(b, segs) ==
    IF segs = <<>> THEN b
    ELSE WithPairs(WithPair(b, Head(segs).words[1], Head(segs).words[3]), Tail(segs))

OnlyPairsOf(segs, keys) ==
    \A i \in 1..Len(segs) : segs[i].kind = "pair" /\ segs[i].words[1] \in keys

\* C17: from_str starts from the defaults, and each pair key=value with key in
\* {log, init, initargs, appcmd, test} sets exactly the field of that key to
\* the value (a literal without its quotes) and leaves the other fields as
\* they were.
C17_PairsSetTheirField ==
    (/\ cmdLast.op = "from_str"
     /\ OnlyPairsOf(cmdLast.segs, CmdKeys \ {<<"mode">>}))
        => cmdLast.parsed = WithPairs(BootloaderArguments_default, cmdLast.segs)

\* C18: lexemes that do not form a known key with a value change no field:
\* the result is the one from_str gives for the command line without them,
\* so that every pair after them takes effect as it does there.
C18_StrayTokensSkipped ==
    cmdLast.op = "from_str" =>
        cmdLast.parsed =
            from_str(<<<<"./kernel">>>> \o
                     Flatten(SelectSeq(cmdLast.segs, LAMBDA seg : seg.kind # "stray")))

\* C19: the mode is the one named by the last mode=value pair, Native for any
\* other value and when there is no such pair, whether the value is a bare
\* identifier or a single-quoted literal.
C19_ModeOfValue ==
    (/\ cmdLast.op = "from_str"
     /\ OnlyPairsOf(cmdLast.segs, {<<"mode">>}))
        => cmdLast.parsed.mode =
              IF cmdLast.segs = <<>> THEN "Native"
              ELSE Mode_from(ValueOf(cmdLast.segs[Len(cmdLast.segs)].words[3]))

-----------------------------------------------------------------------------
(* Claims about the boot handoff *)

Happened(e) == \E i \in 1..Len(bootTrace) : bootTrace[i] = e

Before(e, f) ==
    \A j \in 1..Len(bootTrace) :
       bootTrace[j] = f => \E i \in 1..(j - 1) : bootTrace[i] = e

-----------------------------------------------------------------------------
(* Claims about the first map_generic call on a new VSpace *)

\* The leaf the tables hold for the page vaddr: its level (0 when the walk
\* ends at an invalid entry) and the descriptor.
Walk(m, vaddr) ==
    LET l0_entry == entry_at(m, "invalid", PT_BASE, L0Index(vaddr))
        l1_entry == entry_at(m, "invalid", l0_entry.addr, L1Index(vaddr))
        l2_entry == entry_at(m, "invalid", l1_entry.addr, L2Index(vaddr))
        l3_entry == entry_at(m, "invalid", l2_entry.addr, L3Index(vaddr))
    IN IF l0_entry.kind # "table" \/ l1_entry.kind \notin {"table", "block"}
       THEN [level |-> 0, desc |-> InvalidDesc]
       ELSE IF l1_entry.kind = "block" THEN [level |-> 1, desc |-> l1_entry]
       ELSE IF l2_entry.kind \notin {"table", "block"} THEN [level |-> 0, desc |-> InvalidDesc]
       ELSE IF l2_entry.kind = "block" THEN [level |-> 2, desc |-> l2_entry]
       ELSE IF l3_entry.kind # "page" THEN [level |-> 0, desc |-> InvalidDesc]
       ELSE [level |-> 3, desc |-> l3_entry]

Leaves == {k \in DOMAIN mem : mem[k].kind \in {"block", "page"}}

FirstCallReturned == Len(vsCalls) = 1 /\ vsCalls[1].status = "ok"

\* C22: the descriptor map_generic builds for (rights, pa) at a leaf level
\* decodes to the same rights and pa: no other rights variant gives the same
\* descriptor at any level.
C22_RightsDecodable ==
    FirstCallReturned =>
        \A k \in Leaves : \A level \in 1..3 : \A r \in MapActions :
            leaf_entry(level, r, mem[k].addr) = mem[k] => r = vsCalls[1].rights

IsExample ==
    /\ FirstCallReturned
    /\ vsCalls[1].vbase = 262144 /\ vsCalls[1].pbase = 524288
    /\ vsCalls[1].size = 262656 /\ vsCalls[1].rights = "ReadWriteKernel"

ExampleBlocks ==
    /\ Walk(VsMem, 262144) = [level |-> 1, desc |-> leaf_entry(1, "ReadWriteKernel", 524288)]
    /\ Walk(VsMem, 524287).level = 1
    /\ Walk(VsMem, 524288) = [level |-> 2, desc |-> leaf_entry(2, "ReadWriteKernel", 786432)]
    /\ Cardinality({k \in Leaves : mem[k].kind = "block"}) = 2
    /\ resolve_addr(VsMem, "invalid", 262145, 0) = <<"Some", 524289, 0>>

\* C23 as stated: the example call gives one 1 GiB block, one 2 MiB block and
\* 512 pages of 4 KiB, and 0x4000_1000 resolves to 0x8000_1000.
C23_ExampleAsStated ==
    IsExample =>
        /\ ExampleBlocks
        /\ Cardinality({k \in Leaves : mem[k].kind = "page"}) = 512

\* C23, amended: the example call gives one 1 GiB block for
\* [0x4000_0000, 0x8000_0000), one 2 MiB block for the 2 MiB after it and no
\* 4 KiB page, and 0x4000_1000 resolves to 0x8000_1000.
C23_Example ==
    IsExample =>
        /\ ExampleBlocks
        /\ {k \in Leaves : mem[k].kind = "page"} = {}
        /\ Walk(VsMem, 524288 + 512).level = 0

C23_Witness ==
    /\ IsExample
    /\ nextTable = 3
    /\ resolve_addr(VsMem, "invalid", 262145, 0) = <<"Some", 524289, 0>>

\* C24: map_generic with size = 0 is fatal; it does not return normally.
C24_ZeroSizeFatal ==
    \A i \in DOMAIN vsCalls :
        vsCalls[i].size = 0 => vsCalls[i].status = "panic"

PageSizeOf(level) ==
    CASE level = 1 -> HUGE_PAGE_SIZE
      [] level = 2 -> LARGE_PAGE_SIZE
      [] OTHER -> BASE_PAGE_SIZE

\* The level of the largest page that fits loop state (va, pa, rem).
LargestFit(va, pa, rem) ==
    IF va % HUGE_PAGE_SIZE = 0 /\ pa % HUGE_PAGE_SIZE = 0 /\ rem >= HUGE_PAGE_SIZE THEN 1
    ELSE IF va % LARGE_PAGE_SIZE = 0 /\ pa % LARGE_PAGE_SIZE = 0 /\ rem >= LARGE_PAGE_SIZE THEN 2
    ELSE 3

\* Pages of a call at which leaves are looked up: every 2 MiB boundary and
\* all pages of the first and the last 4 MiB.
SamplePages(c) ==
    {k \in c.vbase..(c.vbase + c.size - 1) :
        \/ k % LARGE_PAGE_SIZE = 0
        \/ k - c.vbase < 2 * LARGE_PAGE_SIZE
        \/ c.vbase + c.size - k <= 2 * LARGE_PAGE_SIZE}

\* C25: every leaf map_generic installs at loop state (cur_va, cur_pa, rem)
\* has the largest of the three sizes for which cur_va and cur_pa are
\* multiples of it and rem is at least it; and a table is allocated only for
\* an invalid entry, so that every allocated table is linked exactly once.
C25_LargestPage ==
    FirstCallReturned =>
        /\ \A k \in SamplePages(vsCalls[1]) :
              LET w == Walk(VsMem, k)
                  va == k - (k % PageSizeOf(w.level))
              IN /\ w.level \in 1..3
                 /\ va >= vsCalls[1].vbase
                 /\ w.desc.addr = vsCalls[1].pbase + (va - vsCalls[1].vbase)
                 /\ w.level = LargestFit(va, w.desc.addr,
                                         vsCalls[1].vbase + vsCalls[1].size - va)
        /\ Cardinality({k \in DOMAIN mem : mem[k].kind = "table"}) = nextTable - 1
        /\ {mem[k].addr : k \in {q \in DOMAIN mem : mem[q].kind = "table"}}
              = (PT_BASE + 1)..(PT_BASE + nextTable - 1)

\* A call whose bases are aligned differently used 2 MiB blocks only.
C25_Witness ==
    /\ FirstCallReturned
    /\ vsCalls[1].vbase = 262144 /\ vsCalls[1].pbase = 512
    /\ Walk(VsMem, 262144).level = 2
    /\ Cardinality(Leaves) = 512
    /\ nextTable = 3

\* C26: every leaf installed for DeviceMemoryKernel carries the device-memory
\* attribute index, every leaf installed for other rights the normal-memory
\* attribute index.
C26_DeviceAttribute ==
    FirstCallReturned =>
        \A k \in Leaves :
            mem[k].attr = IF vsCalls[1].rights = "DeviceMemoryKernel"
                          THEN "DeviceMemory" ELSE "NormalMemory"

-----------------------------------------------------------------------------
(* Claims about map_physical_memory *)

PhysRan == fwMap[1] = "Some" /\ vsCalls # <<>>

\* The pages of a descriptor are identity-mapped with the leaves map_generic
\* builds for rights.
MappedWith(d, rights) ==
    \A k \in d.phys_start..(d.phys_start + d.page_count - 1) :
        LET w == Walk(VsMem, k)
        IN /\ w.level \in 1..3
           /\ w.desc = leaf_entry(w.level, rights, k - (k % PageSizeOf(w.level)))

\* No page of the descriptor is mapped; the UART page is set aside, since
\* map_physical_memory maps it for every memory map.
Unmapped(d) ==
    \A k \in (d.phys_start..(d.phys_start + d.page_count - 1)) \ {UART_PAGE} :
        Walk(VsMem, k).level = 0

C27_UartMapped ==
    PhysRan =>
        /\ vsStatus = "ok"
        /\ Walk(VsMem, UART_PAGE)
              = [level |-> 3, desc |-> leaf_entry(3, "DeviceMemoryKernel", UART_PAGE)]

-----------------------------------------------------------------------------
(* Claims about exceptions taken while upcalls are disabled *)

\* The process current on the core counts as having upcalls disabled for an
\* exception at pc: no vcpu control block, the disabled flag, or pc inside
\* the disabled window.
DisabledAt(p, pc) ==
    \/ ~p.has_vcpu
    \/ p.vcpu_ctl.is_disabled
    \/ (p.vcpu_ctl.pc_disabled[1] <= pc /\ pc <= p.vcpu_ctl.pc_disabled[2])

\* C28: an exception that arrives while upcalls are disabled is resumed by
\* restoring the save area and leaves the enabled-state slot of the process
\* as it was, so the context an upcall saved survives every exception taken
\* before the process enables upcalls again.
C28_DisabledKeepsContext ==
    [][ ( /\ irqStatus = "running"
          /\ irqLast'.op = "exception"
          /\ proc.present
          /\ DisabledAt(proc, irqLast'.a.rip) )
        => ( /\ irqStatus' = "running"
             /\ irqLast'.resumer.kind = "restore"
             /\ proc'.vcpu_ctl.enabled_state = proc.vcpu_ctl.enabled_state ) ]_vars

\* An exception outside the window was resumed by a restore while the slot
\* still holds the context of an earlier upcall taken at another pc.
C28_Witness ==
    /\ irqStatus = "running"
    /\ irqLast.op = "exception"
    /\ irqLast.resumer.kind = "restore"
    /\ proc.has_vcpu
    /\ proc.vcpu_ctl.is_disabled
    /\ proc.vcpu_ctl.enabled_state.rip = 4096
    /\ irqLast.a.rip = 8192
    /\ irqLast.a.rsp # proc.vcpu_ctl.enabled_state.rsp

\* C29: an exception that arrives while register_handler holds the lock of
\* the handler table is dispatched through the table, that is, the entry of
\* its vector is called, and the core goes on running.
C29_DispatchedUnderLock ==
    (irqLast.op = "exception" /\ irqLast.lock[1] = "held")
    => (irqStatus = "running" /\ irqLast.a.vector \in irqLast.invoked)

\* C30: the save area written on trap entry belongs to the core: while a
\* core is inside handle_generic_exception the area holds the rsp, rip and
\* rflags of its own exception, and the context an upcall saves for the
\* process is that of the core's own exception.
C30_SaveAreaPerCore ==
    /\ \A c \in 1..NumCores :
          smpPc[c] = "trap" =>
             /\ csa.rsp = smpArgs[c].rsp
             /\ csa.rip = smpArgs[c].rip
             /\ csa.rflags = smpArgs[c].rflags
    /\ (smpLast.op = "resume" /\ smpLast.resumer.kind = "upcall") =>
          /\ smpProc[smpLast.core].vcpu_ctl.enabled_state.rsp = smpLast.a.rsp
          /\ smpProc[smpLast.core].vcpu_ctl.enabled_state.rip = smpLast.a.rip

-----------------------------------------------------------------------------
(* Claims about the headers and lengths of Client::call *)

\* C33: every request a registered client sends carries the client's own
\* client_id in its header, also after a call that returned
\* MalformedResponse.
C33_RequestsCarryClientId ==
    (clLast.op = "call" /\ clLast.sent[1] = "Some")
    => clLast.sent[2].client_id = clLast.before.client_id

\* C38: a request handed to send_msg is, with its header, no longer than the
\* transport's max_send, and the receive buffers posted for its response
\* are, with the header, no longer than max_recv.
C38_LengthsWithinTransport ==
    (clLast.op = "call" /\ clLast.sent[1] = "Some")
    => /\ clLast.sent[2].msg_len + HDR_LEN <= clLast.before.transport.max_send
       /\ clLast.out_len + HDR_LEN <= clLast.before.transport.max_recv

-----------------------------------------------------------------------------
(* Claims about a failed core allocation *)

\* C35: when handle_request_core replies with an error because
\* allocate_core_to_process failed, the in_use flags of all hardware threads
\* are as they were before the request.
C35_FailedAllocationFreesThread ==
    (rcLast.status = "returned" /\ rcLast.reply[1] = "Err"
     /\ rcLast.req.decodable /\ rcLast.env.alloc # "Ok")
    => hwThreads = rcLast.before

-----------------------------------------------------------------------------
(* Claims about the controller loop *)

\* C32: a request pending at the server of any client is eventually handled,
\* whatever the other clients send and whether or not their requests fail.
C32_PendingEventuallyHandled ==
    \A c \in Machines : (Len(runPending[c]) > 0) ~> (Len(runPending[c]) = 0)

-----------------------------------------------------------------------------
(* Claims about what map_generic leaves alone *)

\* Pages at which resolution is compared: around both ends of every
\* request, and at the ends of the 2 MiB and 1 GiB frames the ends lie in.
ProbePages ==
    {k \in UNION {LET lo == r[1]
                      hi == r[1] + r[3]
                  IN {lo - 1, lo, lo + 1, hi - 1, hi, hi + 1,
                      lo - (lo % LARGE_PAGE_SIZE), lo - (lo % LARGE_PAGE_SIZE) - 1,
                      hi - (hi % LARGE_PAGE_SIZE) + LARGE_PAGE_SIZE - 1,
                      hi - (hi % LARGE_PAGE_SIZE) + LARGE_PAGE_SIZE,
                      lo - (lo % HUGE_PAGE_SIZE), lo - (lo % HUGE_PAGE_SIZE) - 1,
                      hi - (hi % HUGE_PAGE_SIZE) + HUGE_PAGE_SIZE - 1,
                      hi - (hi % HUGE_PAGE_SIZE) + HUGE_PAGE_SIZE}
                  : r \in VsRequests} : k >= 0}

InRange(k, c) == c.vbase <= k /\ k < c.vbase + c.size

-----------------------------------------------------------------------------
(* Claims about leaving event_loop *)

\* C31: event_loop returns only after the debugger requested continue or
\* single-step, and whenever it returns the state machine is back in
\* GDB_STUB in the deferred-stop state, also after a disconnect or a target
\* error inside the session.
C31_ReturnsWithStubParked ==
    (gdbLast.op = "event_loop" /\ gdbLast.status = "returned")
    => /\ gdbLast.requested \in {"step", "resume"}
       /\ gdbStub = "DeferredStopReason"

\* C36: a Ctrl-C byte that arrives while the pending stop reason is a
\* breakpoint, watchpoint or single-step stop does not abort event_loop.
C36_CtrlCWithPendingStop ==
    (gdbLast.op = "event_loop" /\ "event" \in DOMAIN gdbLast
     /\ gdbLast.event = "CtrlCInterrupt"
     /\ gdbLast.pending[1] = "Some"
     /\ gdbLast.pending[2].r \in {"HwBreak", "SwBreak", "Watch", "DoneStep"})
    => (gdbLast.status # "panic" /\ gdbLoop.pc # "panic")

-----------------------------------------------------------------------------
(* Claims about failed memory writes of the debugger *)

\* C37: a write_addrs request that returns an error has modified no byte of
\* target memory, also when only a later page of the range is refused.
C37_FailedWriteWritesNothing ==
    (gdbLast.op = "write_addrs" /\ gdbLast.ret[1] = "Err")
    => (gdbLast.bytes = 0 /\ gdbLast.accessed = {})

C40_AllThreadsLeave == <>(bJoined = BenchCores)

====
